---- MODULE Spec2Model ----
(***************************************************************************)
(* Gemini Chat Exporter: the content script's history converger            *)
(* (scrollToTopAndLoadAll), transcript assembly (extractCurrentMessages,   *)
(* extractFormattedText, deduplicateMessages) and extractChatFull.         *)
(*                                                                         *)
(* Three builds of the content script are in the repository and are       *)
(* modelled side by side: "content" is src/content.js, "part_000" is       *)
(* src/unnamed/part_000 and "part_001" is src/unnamed/part_001.            *)
(*                                                                         *)
(* Text is a sequence of one-character tokens.  NL, TAB and CR are the     *)
(* control characters, BT stands for the backtick.                         *)
(***************************************************************************)
EXTENDS Integers, Sequences, FiniteSets, TLC

\* ------------------------------------------------------------------------
\* Bounds of the model
\* ------------------------------------------------------------------------

\* Number of turn containers of the whole conversation (the host shows a
\* suffix of it).
MaxTurns == 2

\* Export requests the user makes in SpecRequests.
MaxRequests == 2

\* Count changes the host makes in SpecRequests.
MaxHostChanges == 1

\* Longest input of the deduplication specification.
MaxMsgs == 3

\* Clicks on the popup's export buttons.
MaxClicks == 3

\* injectUI calls and removals of the injected root by the host.
MaxUiOps == 5

\* ------------------------------------------------------------------------
\* Program constants
\* ------------------------------------------------------------------------

MAX_ATTEMPTS == 100

STABLE_THRESHOLD == 3

FP_PREFIX == 200

Builds == {"content", "part_000", "part_001"}

\* ------------------------------------------------------------------------
\* Characters and strings
\* ------------------------------------------------------------------------

NL == "\n"

TAB == "\t"

CR == "\r"

SP == " "

BT == "BT"

WhiteSpace == {SP, NL, TAB, CR}

RECURSIVE TrimStart(_)
TrimStart(s) ==
  IF s = <<>> THEN <<>>
  ELSE IF Head(s) \in WhiteSpace THEN TrimStart(Tail(s)) ELSE s

RECURSIVE TrimEnd(_)
TrimEnd(s) ==
  IF s = <<>> THEN <<>>
  ELSE IF s[Len(s)] \in WhiteSpace THEN TrimEnd(SubSeq(s, 1, Len(s) - 1)) ELSE s

\* String.prototype.trim
Trim(s) == TrimEnd(TrimStart(s))

\* String.prototype.substring(0, n)
Substring0(s, n) == SubSeq(s, 1, IF Len(s) < n THEN Len(s) ELSE n)

\* Array.prototype.join('') of a sequence of strings
RECURSIVE Join(_)
Join(parts) == IF parts = <<>> THEN <<>> ELSE Head(parts) \o Join(Tail(parts))

\* '#'.repeat(n)
Repeat(c, n) == [k \in 1..n |-> c]

\* The elements of a sequence.
Range(seq) == {seq[k] : k \in 1..Len(seq)}

\* decimal digits of a list index (lists of the model are shorter than 10)
Digit(n) == CASE n = 1 -> "1" [] n = 2 -> "2" [] n = 3 -> "3" [] n = 4 -> "4"
              [] n = 5 -> "5" [] n = 6 -> "6" [] n = 7 -> "7" [] n = 8 -> "8"
              [] n = 9 -> "9" [] OTHER -> "0"

\* ------------------------------------------------------------------------
\* Document nodes
\* ------------------------------------------------------------------------

\* A text node.
Txt(s) == [type |-> "text", tag |-> "", cls |-> {}, id |-> "",
           langClass |-> <<>>, dataLang |-> <<>>, text |-> s, kids |-> <<>>]

\* An element; langClass is the token captured by /(?:language|lang)-(\w+)/
\* from its class name (empty when there is none), dataLang its
\* data-language / data-lang attribute.
El(tag, cls, kids) == [type |-> "el", tag |-> tag, cls |-> cls, id |-> "",
                       langClass |-> <<>>, dataLang |-> <<>>, text |-> <<>>,
                       kids |-> kids]

\* A node that is neither text nor element (a comment).
Comment(s) == [type |-> "comment", tag |-> "", cls |-> {}, id |-> "",
               langClass |-> <<>>, dataLang |-> <<>>, text |-> s, kids |-> <<>>]

\* A node at which processNode raises (a subtree nested deeper than the call
\* stack allows: RangeError).
Raising == [type |-> "raise", tag |-> "", cls |-> {}, id |-> "",
            langClass |-> <<>>, dataLang |-> <<>>, text |-> <<>>, kids |-> <<>>]

\* The mark an error raised inside processNode leaves in the text; what is
\* concatenated around it is lost with the exception.
THROWN == "THROWN"

\* The call that produced this text raised.
Raises(text) == \E k \in 1..Len(text) : text[k] = THROWN

NoNode == [type |-> "none", tag |-> "", cls |-> {}, id |-> "",
           langClass |-> <<>>, dataLang |-> <<>>, text |-> <<>>, kids |-> <<>>]

\* Node.textContent
RECURSIVE textContent(_)
textContent(node) ==
  IF node.type = "text" THEN node.text
  ELSE IF node.type = "el"
       THEN Join([k \in 1..Len(node.kids) |-> textContent(node.kids[k])])
       ELSE <<>>

\* The descendants of a node in document order (the node itself excluded).
RECURSIVE Descendants(_)
Descendants(node) ==
  Join([k \in 1..Len(node.kids) |-> <<node.kids[k]>> \o Descendants(node.kids[k])])

IsTag(n, t) == n.type = "el" /\ n.tag = t

HasClass(n, c) == n.type = "el" /\ c \in n.cls

\* A CSS selector is a set of simple selectors (the comma list): a tag name or
\* a class name each.
TagSel(t) == [kind |-> "tag", name |-> t]

ClassSel(c) == [kind |-> "class", name |-> c]

\* The selector [class*=part]
ClassPartSel(part) == [kind |-> "classpart", name |-> part]

\* The class names of the host page that contain the string part.
ClassesContaining(part) ==
  IF part = "title" THEN {"title", "report-title", "title-text"} ELSE {part}

\* Element.matches
Matches(n, sel) ==
  \E s \in sel :
    CASE s.kind = "tag" -> IsTag(n, s.name)
      [] s.kind = "class" -> HasClass(n, s.name)
      [] OTHER -> n.type = "el" /\ n.cls \cap ClassesContaining(s.name) # {}

\* Element.querySelectorAll: the matching descendants in document order.
SelectAll(node, sel) == SelectSeq(Descendants(node), LAMBDA n : Matches(n, sel))

\* Element.querySelector: the first match, NoNode for null.
SelectFirst(node, sel) ==
  LET all == SelectAll(node, sel) IN IF all = <<>> THEN NoNode ELSE all[1]

\* ------------------------------------------------------------------------
\* detectCodeLanguage
\* ------------------------------------------------------------------------

UpperCase == <<"A", "B", "C", "D", "E", "F", "G", "H", "I", "J", "K", "L", "M", "N", "O", "P", "Q", "R", "S", "T", "U", "V", "W", "X", "Y", "Z">>

LowerCase == <<"a", "b", "c", "d", "e", "f", "g", "h", "i", "j", "k", "l", "m", "n", "o", "p", "q", "r", "s", "t", "u", "v", "w", "x", "y", "z">>

\* String.prototype.toLowerCase, one character
LowerChar(c) ==
  IF \E k \in 1..26 : UpperCase[k] = c
  THEN LowerCase[CHOOSE k \in 1..26 : UpperCase[k] = c]
  ELSE c

toLowerCase(s) == [k \in 1..Len(s) |-> LowerChar(s[k])]

knownLangs ==
  {<<"p", "y", "t", "h", "o", "n">>,
   <<"j", "a", "v", "a", "s", "c", "r", "i", "p", "t">>,
   <<"t", "y", "p", "e", "s", "c", "r", "i", "p", "t">>,
   <<"j", "a", "v", "a">>,
   <<"c", "+", "+">>,
   <<"c", "#">>,
   <<"g", "o">>,
   <<"r", "u", "s", "t">>,
   <<"r", "u", "b", "y">>,
   <<"p", "h", "p">>,
   <<"s", "w", "i", "f", "t">>,
   <<"k", "o", "t", "l", "i", "n">>,
   <<"s", "q", "l">>,
   <<"h", "t", "m", "l">>,
   <<"c", "s", "s">>,
   <<"b", "a", "s", "h">>,
   <<"s", "h", "e", "l", "l">>,
   <<"j", "s", "o", "n">>,
   <<"y", "a", "m", "l">>,
   <<"x", "m", "l">>,
   <<"m", "a", "r", "k", "d", "o", "w", "n">>,
   <<"r">>,
   <<"s", "c", "a", "l", "a">>}

IsCode == {TagSel("code")}

\* detectCodeLanguage(pre); prev is pre.previousElementSibling (NoNode for
\* null).  Only part_000 looks at the preceding sibling.
detectCodeLanguage(build, pre, prev) ==
  LET code == SelectFirst(pre, IsCode)
      m    == IF pre.langClass # <<>> THEN pre.langClass ELSE code.langClass
      text == toLowerCase(Trim(textContent(prev)))
  IN  IF m # <<>> THEN m
      ELSE IF pre.dataLang # <<>> THEN pre.dataLang
      ELSE IF build = "part_000" /\ prev.type = "el"
              /\ textContent(prev) # <<>> /\ Len(textContent(prev)) < 30
              /\ text \in knownLangs
           THEN text
           ELSE <<>>

\* isInsidePre(el); anc is the sequence of tags of el's ancestors.
isInsidePre(anc) == \E k \in 1..Len(anc) : anc[k] = "pre"

\* ------------------------------------------------------------------------
\* formatTable
\* ------------------------------------------------------------------------

IsRow == {TagSel("tr")}

IsCell == {TagSel("th"), TagSel("td")}

IsHeaderCell == {TagSel("th")}

\* cells.join(' | ')
RECURSIVE JoinCells(_)
JoinCells(cells) ==
  IF cells = <<>> THEN <<>>
  ELSE IF Len(cells) = 1 THEN cells[1]
  ELSE cells[1] \o <<SP, "|", SP>> \o JoinCells(Tail(cells))

formatRow(row, ri) ==
  LET cellEls == SelectAll(row, IsCell)
      cells   == [k \in 1..Len(cellEls) |-> Trim(textContent(cellEls[k]))]
      dashes  == [k \in 1..Len(cellEls) |-> <<"-", "-", "-">>]
      line(cs) == <<"|", SP>> \o JoinCells(cs) \o <<SP, "|", NL>>
  IN  line(cells)
        \o (IF ri = 1 /\ SelectFirst(row, IsHeaderCell) # NoNode
            THEN line(dashes) ELSE <<>>)

formatTable(table) ==
  LET rows == SelectAll(table, IsRow)
  IN  Join([ri \in 1..Len(rows) |-> formatRow(rows[ri], ri)])

\* ------------------------------------------------------------------------
\* processNode / extractFormattedText
\* ------------------------------------------------------------------------

blockTags == {"p", "div", "h1", "h2", "h3", "h4", "h5", "h6", "blockquote",
              "section", "article", "header", "footer", "br", "hr"}

HeadingLevel(tag) ==
  CASE tag = "h1" -> 1 [] tag = "h2" -> 2 [] tag = "h3" -> 3
    [] tag = "h4" -> 4 [] tag = "h5" -> 5 [] tag = "h6" -> 6 [] OTHER -> 0

\* previousElementSibling of kids[k]
RECURSIVE PrevElementSibling(_, _)
PrevElementSibling(kids, k) ==
  IF k <= 1 THEN NoNode
  ELSE IF kids[k - 1].type = "el" THEN kids[k - 1]
  ELSE PrevElementSibling(kids, k - 1)

IsListItem == {TagSel("li")}

\* processNode(node, parts): the text it pushes.  prev is the node's
\* previous element sibling, anc the tags of its ancestors.
RECURSIVE processNode(_, _, _, _)
processNode(build, node, prev, anc) ==
  LET tag  == node.tag
      kidsText ==
        Join([k \in 1..Len(node.kids) |->
                processNode(build, node.kids[k],
                            PrevElementSibling(node.kids, k),
                            anc \o <<tag>>)])
      items == SelectSeq(node.kids, LAMBDA n : Matches(n, IsListItem))
  IN
  IF node.type = "text" THEN node.text
  ELSE IF node.type = "raise" THEN <<THROWN>>
  ELSE IF node.type # "el" THEN <<>>
  ELSE IF tag = "span" /\ "screen-reader-only" \in node.cls THEN <<>>
  ELSE IF build # "part_000" /\ node.id \in {"gce-root", "gce-toast"} THEN <<>>
  ELSE IF tag \in {"pre", "code-block"} THEN
    LET code   == SelectFirst(node, IsCode)
        codeEl == IF code # NoNode THEN code ELSE node
        lang   == detectCodeLanguage(build, node, prev)
    IN  <<NL, BT, BT, BT>> \o lang \o <<NL>> \o Trim(textContent(codeEl))
          \o <<NL, BT, BT, BT, NL>>
  ELSE IF tag = "code" /\ ~isInsidePre(anc) THEN
    <<BT>> \o textContent(node) \o <<BT>>
  ELSE IF tag = "img" THEN
    <<"[", "I", "m", "a", "g", "e", SP, "a", "t", "t", "a", "c", "h", "m",
      "e", "n", "t", "]">>
  ELSE IF tag \in {"ul", "ol"} THEN
    <<NL>> \o
    Join([k \in 1..Len(items) |->
            (IF tag = "ol" THEN <<Digit(k), ".", SP>> ELSE <<"-", SP>>)
              \o processNode(build, items[k], NoNode, anc \o <<tag>>)
              \o <<NL>>])
  ELSE IF tag = "li" THEN kidsText
  ELSE IF tag = "table" THEN <<NL>> \o formatTable(node) \o <<NL>>
  ELSE IF tag \in {"strong", "b"} THEN <<"*", "*">> \o kidsText \o <<"*", "*">>
  ELSE IF tag \in {"em", "i"} THEN <<"*">> \o kidsText \o <<"*">>
  ELSE IF tag = "br" THEN <<NL>>
  ELSE IF tag = "hr" THEN <<NL, "-", "-", "-", NL>>
  ELSE IF HeadingLevel(tag) > 0 THEN
    <<NL>> \o Repeat("#", HeadingLevel(tag)) \o <<SP>> \o kidsText \o <<NL>>
  ELSE IF tag = "blockquote" THEN <<NL, ">", SP>> \o kidsText \o <<NL>>
  ELSE IF tag \in blockTags THEN <<NL>> \o kidsText \o <<NL>>
  ELSE kidsText

\* extractFormattedText(element); NoNode is a null element.
extractFormattedText(build, element) ==
  IF element = NoNode THEN <<>>
  ELSE Trim(processNode(build, element, NoNode, <<>>))

\* ------------------------------------------------------------------------
\* extractCurrentMessages
\* ------------------------------------------------------------------------

IsContainer == {ClassSel("conversation-container")}

IsUserQuery == {TagSel("user-query")}

IsModelResponse == {TagSel("model-response")}

IsQueryText == {ClassSel("query-text")}

IsQueryContent == {ClassSel("query-content")}

IsUserQueryContent == {TagSel("user-query-content")}

IsMessageContent == {TagSel("message-content")}

IsModelResponseText == {ClassSel("model-response-text")}

IsResponseContainer == {ClassSel("response-container")}

\* a || b for element handles
OrElse(a, b) == IF a # NoNode THEN a ELSE b

RoleChars(role) ==
  IF role = "user" THEN <<"u", "s", "e", "r">>
  ELSE <<"a", "s", "s", "i", "s", "t", "a", "n", "t">>

\* A turn {role, content}.  src is not a field of the program's object: it
\* records the index of the container the turn was read from.
Turn(role, content, src) == [role |-> role, content |-> content, src |-> src]

\* The element the user's text is read from.
queryElement(uq) ==
  OrElse(SelectFirst(uq, IsQueryText),
    OrElse(SelectFirst(uq, IsQueryContent),
      OrElse(SelectFirst(uq, IsUserQueryContent), uq)))

\* The element the model's text is read from.
responseElement(build, mr) ==
  OrElse(SelectFirst(mr, IsMessageContent),
    OrElse(SelectFirst(mr, IsModelResponseText),
      IF build = "part_000"
      THEN OrElse(SelectFirst(mr, IsResponseContainer), mr)
      ELSE mr))

\* The callback without its if (text) tests.
containerTurnsUnchecked(build, container, idx) ==
  LET uq    == SelectFirst(container, IsUserQuery)
      mr    == SelectFirst(container, IsModelResponse)
      utext == extractFormattedText(build, queryElement(uq))
      mtext == extractFormattedText(build, responseElement(build, mr))
  IN  (IF uq # NoNode THEN <<Turn("user", utext, idx)>> ELSE <<>>)
      \o
      (IF mr # NoNode THEN <<Turn("assistant", mtext, idx)>> ELSE <<>>)

\* The callback reading the response before the query.
containerTurnsResponseFirst(build, container, idx) ==
  LET uq    == SelectFirst(container, IsUserQuery)
      mr    == SelectFirst(container, IsModelResponse)
      utext == extractFormattedText(build, queryElement(uq))
      mtext == extractFormattedText(build, responseElement(build, mr))
  IN  (IF mr # NoNode /\ mtext # <<>>
       THEN <<Turn("assistant", mtext, idx)>> ELSE <<>>)
      \o
      (IF uq # NoNode /\ utext # <<>>
       THEN <<Turn("user", utext, idx)>> ELSE <<>>)

\* The forEach callback wraps its body in try/catch (content.js only).
HasTryCatch(build) == build = "content"

\* The body of the forEach callback raises on this container.
containerRaises(build, container) ==
  LET uq    == SelectFirst(container, IsUserQuery)
      mr    == SelectFirst(container, IsModelResponse)
      utext == extractFormattedText(build, queryElement(uq))
      mtext == extractFormattedText(build, responseElement(build, mr))
  IN  \/ uq # NoNode /\ Raises(utext)
      \/ mr # NoNode /\ Raises(mtext)

\* The body of the forEach callback: the turns one container pushes (up to
\* the statement that raises, when one does).
containerTurns(build, container, idx) ==
  LET uq    == SelectFirst(container, IsUserQuery)
      mr    == SelectFirst(container, IsModelResponse)
      utext == extractFormattedText(build, queryElement(uq))
      mtext == extractFormattedText(build, responseElement(build, mr))
      uqRaises == uq # NoNode /\ Raises(utext)
  IN  (IF uq # NoNode /\ ~uqRaises /\ utext # <<>>
       THEN <<Turn("user", utext, idx)>> ELSE <<>>)
      \o
      (IF ~uqRaises /\ mr # NoNode /\ ~Raises(mtext) /\ mtext # <<>>
       THEN <<Turn("assistant", mtext, idx)>> ELSE <<>>)

\* extractCurrentMessages() raises: a container's callback raises and
\* nothing catches it.
extractionRaises(build, scroller) ==
  /\ scroller # NoNode
  /\ ~HasTryCatch(build)
  /\ \E c \in Range(SelectAll(scroller, IsContainer)) : containerRaises(build, c)

\* extractCurrentMessages(); scroller is the result of
\* document.querySelector('infinite-scroller.chat-history').
extractCurrentMessages(build, scroller) ==
  IF scroller = NoNode THEN <<>>
  ELSE LET containers == SelectAll(scroller, IsContainer)
       IN  Join([idx \in 1..Len(containers) |->
                   containerTurns(build, containers[idx], idx)])

\* ------------------------------------------------------------------------
\* extractDeepResearchReport
\* ------------------------------------------------------------------------

REPORT_MIN == 50

REPORT_FALLBACK_MIN == 100

TITLE_MIN == 3

TITLE_MAX == 200

FIRST_LINE_MAX == 80

DefaultReportTitle == <<"D", "e", "e", "p", SP, "R", "e", "s", "e", "a", "r", "c", "h", SP, "R", "e", "p", "o", "r", "t">>

\* text.split('\n')[0]
FirstLine(text) ==
  IF \E k \in 1..Len(text) : text[k] = NL
  THEN SubSeq(text, 1, (CHOOSE k \in 1..Len(text) :
                          text[k] = NL /\ \A j \in 1..(k - 1) : text[j] # NL) - 1)
  ELSE text

\* t && t.length > 3 && t.length < 200
IsTitleText(t) == Len(t) > TITLE_MIN /\ Len(t) < TITLE_MAX

\* getReportTitle(drPanel)
getReportTitle(drPanel) ==
  LET toolbar == SelectFirst(drPanel, {TagSel("toolbar"), ClassSel("toolbar")})
      titleEl == SelectFirst(toolbar, {TagSel("h1"), TagSel("h2"),
                                       ClassSel("title"), ClassPartSel("title")})
      t1      == Trim(textContent(titleEl))
      h1      == SelectFirst(drPanel, {TagSel("h1"), TagSel("h2")})
      t2      == Trim(textContent(h1))
      text    == Trim(textContent(drPanel))
      first   == Substring0(Trim(FirstLine(text)), FIRST_LINE_MAX)
  IN  IF toolbar # NoNode /\ titleEl # NoNode /\ IsTitleText(t1) THEN t1
      ELSE IF h1 # NoNode /\ IsTitleText(t2) THEN t2
      ELSE IF text # <<>> /\ first # <<>> THEN first
      ELSE DefaultReportTitle

\* The report of a transcript; present is FALSE for null.
NoReport == [present |-> FALSE, title |-> <<>>, content |-> <<>>]

Report(title, content) == [present |-> TRUE, title |-> title, content |-> content]

\* extractDeepResearchReport(); drPanel is the result of
\* document.querySelector('deep-research-immersive-panel').  Only content.js
\* has the function.
extractDeepResearchReport(build, drPanel) ==
  LET container == SelectFirst(drPanel, {ClassSel("container")})
      messageContent ==
        OrElse(SelectFirst(container, {TagSel("message-content")}),
          OrElse(SelectFirst(SelectFirst(container, {TagSel("response-container")}),
                             {TagSel("message-content")}),
                 SelectFirst(container, {TagSel("response-container")})))
      ctext == extractFormattedText(build, container)
      text  == extractFormattedText(build, messageContent)
  IN  IF build # "content" \/ drPanel = NoNode THEN NoReport
      ELSE IF container = NoNode THEN NoReport
      ELSE IF messageContent = NoNode
           THEN IF Raises(ctext) THEN NoReport
                ELSE IF ctext # <<>> /\ Len(ctext) > REPORT_FALLBACK_MIN
                     THEN Report(getReportTitle(drPanel), ctext)
                     ELSE NoReport
      ELSE IF Raises(text) THEN NoReport
      ELSE IF text = <<>> \/ Len(text) < REPORT_MIN THEN NoReport
      ELSE Report(getReportTitle(drPanel), text)

\* ------------------------------------------------------------------------
\* deduplicateMessages
\* ------------------------------------------------------------------------

\* m.role + '::' + m.content.substring(0, 200).trim()
fingerprint(m) ==
  RoleChars(m.role) \o <<":", ":">> \o Trim(Substring0(m.content, FP_PREFIX))

RECURSIVE dedupFilter(_, _)
dedupFilter(messages, seen) ==
  IF messages = <<>> THEN <<>>
  ELSE LET m  == Head(messages)
           fp == fingerprint(m)
       IN  IF fp \in seen
           THEN dedupFilter(Tail(messages), seen)
           ELSE <<m>> \o dedupFilter(Tail(messages), seen \cup {fp})

\* Deduplication that only looks at the turn just before.
RECURSIVE dedupAdjacentFrom(_, _)
dedupAdjacentFrom(messages, k) ==
  IF k > Len(messages) THEN <<>>
  ELSE (IF k > 1 /\ fingerprint(messages[k]) = fingerprint(messages[k - 1])
        THEN <<>> ELSE <<messages[k]>>)
       \o dedupAdjacentFrom(messages, k + 1)

dedupAdjacent(messages) == dedupAdjacentFrom(messages, 1)

\* Deduplication that keeps the last turn of each fingerprint.
dedupKeepLast(messages) ==
  SelectSeq([k \in 1..Len(messages) |-> [at |-> k, m |-> messages[k]]],
            LAMBDA e : \A j \in (e.at + 1)..Len(messages) :
                         fingerprint(messages[j]) # fingerprint(e.m))

dedupKeepLastTurns(messages) ==
  LET kept == dedupKeepLast(messages) IN [k \in 1..Len(kept) |-> kept[k].m]

deduplicateMessages(messages) == dedupFilter(messages, {})

\* ------------------------------------------------------------------------
\* The host page
\* ------------------------------------------------------------------------

Para(s) == El("p", {}, <<Txt(s)>>)

ScreenReaderOnly(s) == El("span", {"screen-reader-only"}, <<Txt(s)>>)

Container(kids) == El("div", {"conversation-container"}, kids)

UserQuery(kids) == El("user-query", {}, kids)

ModelResponse(kids) == El("model-response", {}, kids)

\* A turn container as the host renders it: a labelled query and a response.
FullContainer(q, a) ==
  Container(<<UserQuery(<<ScreenReaderOnly(<<"Y", "o", "u">>),
                          El("div", {"query-text"}, <<Para(q)>>)>>),
              ModelResponse(<<El("message-content", {}, <<Para(a)>>)>>)>>)

\* A container whose query renders to white space only.
BlankQueryContainer(a) ==
  Container(<<UserQuery(<<El("div", {"query-text"}, <<Txt(<<SP, NL>>)>>)>>),
              ModelResponse(<<El("message-content", {}, <<Para(a)>>)>>)>>)

\* The report panel as the host renders it: a toolbar with the title and the
\* report text inside .container.
ReportPanel(title, content) ==
  El("deep-research-immersive-panel", {},
     <<El("div", {"toolbar"}, <<El("h2", {"title-text"}, <<Txt(title)>>)>>),
       El("div", {"container"},
          <<El("response-container", {},
               <<El("message-content", {}, <<Para(content)>>)>>)>>)>>)

ReportTitle == <<"T", "i", "d", "e", "s">>

\* The conversations of the exported page: the oldest container has a
\* blank query, the later ones repeat one exchange.
Histories ==
  { [k \in 1..MaxTurns |->
       IF k = 1 THEN BlankQueryContainer(<<"o", "k">>)
       ELSE FullContainer(<<"h", "i">>, <<"o", "k">>)] }

\* The containers in the document when count of them are materialized: the
\* newest count containers of the conversation.
Materialized(hist, count) == SubSeq(hist, Len(hist) - count + 1, Len(hist))

\* document.querySelector('infinite-scroller.chat-history')
ScrollerElement(present, hist, count) ==
  IF present
  THEN El("infinite-scroller", {"chat-history"}, Materialized(hist, count))
  ELSE NoNode

\* scroller.scrollHeight, in container heights; the viewport shows one
\* container.
ScrollHeight(count) == count

MaxScrollTop(count) == IF ScrollHeight(count) > 1 THEN ScrollHeight(count) - 1 ELSE 0

\* The offset the browser keeps when v is assigned to scroller.scrollTop.
ClampScroll(v, count) ==
  IF v < 0 THEN 0
  ELSE IF v > MaxScrollTop(count) THEN MaxScrollTop(count) ELSE v

\* ------------------------------------------------------------------------
\* State
\* ------------------------------------------------------------------------

VARIABLES
  build,           \* the content script that is loaded
  scrollerPresent, \* infinite-scroller.chat-history is in the document
  history,         \* the conversation's containers, oldest first
  domCount,        \* number of containers in the document
  scrollTop,       \* scroller.scrollTop
  requestsLeft,    \* export requests still to come
  hostChangesLeft, \* count changes the host still makes (-1: no limit)
  pc,              \* per request: idle, settle, final, returned
  via,             \* per request: menu or popup
  lastCount,       \* per request: lastCount / lastConversationCount
  stable,          \* per request: stable / stableRounds
  attempt,         \* per request: loop variable i / attempt
  probes,          \* per request: counts measured inside the loop
  settles,         \* per request: sleep(600) suspensions started
  finalSettles,    \* per request: sleep(300) suspensions started
  phases,          \* per request: phases of the progress events emitted
  doneCollected,   \* per request: collected of the done event
  exitKind,        \* per request: how the loop was left
  lastChange,      \* per request: probe at which the count last changed
  topBefore,       \* per request: scrollTop when the operation began
  result,          \* per request: what extractChatFull resolved to
  reportPanel,     \* the deep-research-immersive-panel element (NoNode: none)
  engine,          \* window.jspdf: loaded or missing
  offered,         \* the formats export requests name
  serial,          \* the user waits for an export to end before the next
  format,          \* per request: the format asked for
  outcome,         \* per request: the toast shown / the response sent
  files,           \* the files downloaded, in order
  progressVisible, \* the in-page progress indicator is visible
  loading,         \* the popup's loading overlay is visible
  fnInput,         \* input of the function under test
  fnOutput,        \* its output
  fnStage          \* position of the function specifications

vars == <<build, scrollerPresent, history, domCount, scrollTop, requestsLeft,
          hostChangesLeft, pc, via, lastCount, stable, attempt, probes,
          settles, finalSettles, phases, doneCollected, exitKind, lastChange,
          topBefore, result, reportPanel, engine, offered, serial, format,
          outcome, files, progressVisible, loading, fnInput, fnOutput, fnStage>>

pageVars == <<build, scrollerPresent, history, domCount, scrollTop,
              requestsLeft, hostChangesLeft, pc, via, lastCount, stable,
              attempt, probes, settles, finalSettles, phases, doneCollected,
              exitKind, lastChange, topBefore, result, reportPanel, engine,
              offered, serial, format, outcome, files, progressVisible,
              loading>>

\* The page outside the conversation and the user's habits.
envVars == <<reportPanel, engine, offered, serial>>

\* What the export handlers write.
handlerVars == <<format, outcome, files, progressVisible, loading>>

fnVars == <<fnInput, fnOutput, fnStage>>

Requests == 1..MaxRequests

NoResult == [status |-> "pending", error |-> "", messages |-> <<>>,
             report |-> NoReport]

Success(messages, report) ==
  [status |-> "success", error |-> "", messages |-> messages, report |-> report]

Failure(error) == [status |-> "failure", error |-> error, messages |-> <<>>,
                   report |-> NoReport]

Formats == {"pdf", "markdown", "csv"}

\* A format name outside the three.
OtherFormat == "html"

\* No toast shown, no response sent.
NoOutcome == [kind |-> "none", message |-> ""]

Toast(kind, message) == [kind |-> kind, message |-> message]

\* The message of the Error scrollToTopAndLoadAll throws.
NoScrollerMessage(b) ==
  IF b # "part_000"
  THEN "No chat found. Open a Gemini conversation first."
  ELSE "Could not find chat scroller. Are you in a Gemini conversation?"

\* The error field extractChatFull's catch block builds from err.message.
CaughtError(b, message) ==
  IF b # "part_000" THEN message ELSE "Failed to extract chat: " \o message

\* extractChatFull without its catch block: the promise is rejected.
Escaped(b, message) ==
  [status |-> "rejected", error |-> message, messages |-> <<>>,
   report |-> NoReport]

\* The catch block of extractChatFull: { success: false, error }.
Settled(b, message) == Failure(CaughtError(b, message))

Sleeping(r) == pc[r] \in {"settle", "final"}

\* No request has been made yet.
RunsIdle(nRequests, nHostChanges) ==
  /\ requestsLeft = nRequests
  /\ hostChangesLeft = nHostChanges
  /\ pc = [r \in Requests |-> "idle"]
  /\ via = [r \in Requests |-> "none"]
  /\ lastCount = [r \in Requests |-> 0]
  /\ stable = [r \in Requests |-> 0]
  /\ attempt = [r \in Requests |-> 0]
  /\ probes = [r \in Requests |-> 0]
  /\ settles = [r \in Requests |-> 0]
  /\ finalSettles = [r \in Requests |-> 0]
  /\ phases = [r \in Requests |-> <<>>]
  /\ doneCollected = [r \in Requests |-> 0]
  /\ exitKind = [r \in Requests |-> "none"]
  /\ lastChange = [r \in Requests |-> 0]
  /\ topBefore = [r \in Requests |-> 0]
  /\ result = [r \in Requests |-> NoResult]
  /\ format = [r \in Requests |-> "none"]
  /\ outcome = [r \in Requests |-> NoOutcome]
  /\ files = <<>>
  /\ progressVisible = FALSE
  /\ loading = FALSE

\* A page without a report, the PDF engine loaded, markdown exports.
PlainPage ==
  /\ reportPanel = NoNode
  /\ engine = "loaded"
  /\ offered = {"markdown"}
  /\ serial = FALSE

PageInit(nRequests, nHostChanges) ==
  /\ build \in Builds
  /\ scrollerPresent \in BOOLEAN
  /\ history \in Histories
  /\ domCount \in 0..MaxTurns
  /\ scrollTop \in 0..MaxScrollTop(domCount)
  /\ PlainPage
  /\ RunsIdle(nRequests, nHostChanges)

FnIdle ==
  /\ fnInput = <<>>
  /\ fnOutput = <<>>
  /\ fnStage = "off"

\* One export request, a host that may change the count at every wait.
Init == PageInit(1, -1) /\ FnIdle

\* ------------------------------------------------------------------------
\* scrollToTopAndLoadAll and extractChatFull
\* ------------------------------------------------------------------------

\* A counter that is never reset.
StableAfterNoReset(count, last, st) == st + 1

\* if (count === lastCount) { stable++; ... } else { stable = 0; ... }
StableAfter(count, last, st) == IF count = last THEN st + 1 ELSE 0

\* The break taken one stable round late.
LoopBreaksLate(count, last, st) ==
  count = last /\ StableAfter(count, last, st) > STABLE_THRESHOLD

\* if (stable >= 3) break;
LoopBreaks(count, last, st) ==
  count = last /\ StableAfter(count, last, st) >= STABLE_THRESHOLD

\* The loop bound off by one.
LoopContinuesOneMore(i) == i <= MAX_ATTEMPTS

\* for (...; i < 100; ...)
LoopContinues(i) == i < MAX_ATTEMPTS

\* The phases emitted after the final settle.
FinalPhases(b) == IF b # "part_000" THEN <<"done">> ELSE <<"loaded", "done">>

\* The phases emitted between the final settle and the extraction.
PhasesBeforeExtract(b) == IF b # "part_000" THEN <<>> ELSE <<"loaded">>

\* err.message of the error a Raising node raises.
RaisedMessage == "Maximum call stack size exceeded"

\* scroller.scrollTop = scroller.scrollHeight
RestoredScrollTop(count, before) == ClampScroll(ScrollHeight(count), count)

\* The entry points: the in-page menu item's click handler (content.js) and
\* the extractChat message of the popup.
EntryPoints(b) == IF b # "part_000" THEN {"menu", "popup"} ELSE {"popup"}

\* The record of the counts one run measures, kept when fnStage is "trace":
\* the initial count, then the count of every probe.
Traces(counts) ==
  /\ fnOutput' = IF fnStage = "trace" THEN counts ELSE fnOutput
  /\ UNCHANGED <<fnInput, fnStage>>

\* An export request arrives: the handler calls extractChatFull, which runs
\* scrollToTopAndLoadAll up to its first await.
StartExtract(r, v, f) ==
  /\ requestsLeft > 0
  /\ pc[r] = "idle"
  /\ \A q \in Requests : q < r => pc[q] # "idle"
  /\ serial => \A q \in Requests : pc[q] \in {"idle", "finished"}
  /\ v \in EntryPoints(build)
  /\ f \in offered
  /\ format' = [format EXCEPT ![r] = f]
  /\ progressVisible' = IF v = "menu" THEN TRUE ELSE progressVisible
  /\ loading' = IF v = "popup" THEN TRUE ELSE loading
  /\ UNCHANGED <<outcome, files>>
  /\ UNCHANGED envVars
  /\ requestsLeft' = requestsLeft - 1
  /\ via' = [via EXCEPT ![r] = v]
  /\ IF ~scrollerPresent
     THEN /\ result' = [result EXCEPT
                 ![r] = Settled(build, NoScrollerMessage(build))]
          /\ pc' = [pc EXCEPT ![r] = "returned"]
          /\ UNCHANGED <<scrollTop, lastCount, stable, attempt, settles,
                         phases, topBefore, exitKind, finalSettles>>
     ELSE /\ topBefore' = [topBefore EXCEPT ![r] = scrollTop]
          /\ lastCount' = [lastCount EXCEPT ![r] = domCount]
          /\ stable' = [stable EXCEPT ![r] = 0]
          /\ attempt' = [attempt EXCEPT ![r] = 0]
          /\ phases' = [phases EXCEPT ![r] = <<"starting">>]
          /\ IF LoopContinues(0)
             THEN /\ scrollTop' = ClampScroll(0, domCount)
                  /\ settles' = [settles EXCEPT ![r] = 1]
                  /\ pc' = [pc EXCEPT ![r] = "settle"]
                  /\ UNCHANGED <<exitKind, finalSettles>>
             ELSE /\ scrollTop' = ClampScroll(0, domCount)
                  /\ exitKind' = [exitKind EXCEPT ![r] = "Exhausted"]
                  /\ finalSettles' = [finalSettles EXCEPT ![r] = 1]
                  /\ pc' = [pc EXCEPT ![r] = "final"]
                  /\ UNCHANGED settles
          /\ UNCHANGED result
  /\ UNCHANGED <<build, scrollerPresent, history, domCount, hostChangesLeft,
                 probes, doneCollected, lastChange>>
  /\ Traces(IF scrollerPresent THEN <<domCount>> ELSE fnOutput)

\* sleep(600) is over: measure, report, compare, and either go round the
\* loop again (up to the next sleep(600)) or leave it (up to sleep(300)).
Probe(r) ==
  /\ pc[r] = "settle"
  /\ LET count  == domCount
         breaks == LoopBreaks(count, lastCount[r], stable[r])
         i      == attempt[r] + 1
     IN  /\ probes' = [probes EXCEPT ![r] = @ + 1]
         /\ phases' = [phases EXCEPT ![r] = Append(@, "scrolling_up")]
         /\ stable' = [stable EXCEPT ![r] = StableAfter(count, lastCount[r], @)]
         /\ lastCount' = [lastCount EXCEPT ![r] = count]
         /\ scrollTop' = ClampScroll(0, domCount)
         /\ IF ~breaks /\ LoopContinues(i)
            THEN /\ attempt' = [attempt EXCEPT ![r] = i]
                 /\ settles' = [settles EXCEPT ![r] = @ + 1]
                 /\ UNCHANGED <<pc, exitKind, finalSettles>>
            ELSE /\ attempt' = [attempt EXCEPT ![r] = IF breaks THEN @ ELSE i]
                 /\ exitKind' = [exitKind EXCEPT
                        ![r] = IF breaks THEN "Stable" ELSE "Exhausted"]
                 /\ finalSettles' = [finalSettles EXCEPT ![r] = @ + 1]
                 /\ pc' = [pc EXCEPT ![r] = "final"]
                 /\ UNCHANGED settles
  /\ UNCHANGED <<build, scrollerPresent, history, domCount, requestsLeft,
                 hostChangesLeft, via, doneCollected, lastChange, topBefore,
                 result>>
  /\ UNCHANGED <<envVars, handlerVars>>
  /\ Traces(Append(fnOutput, domCount))

\* sleep(300) is over: extract, scroll back, report done, return; then
\* extractChatFull deduplicates and resolves.
FinishExtract(r) ==
  /\ pc[r] = "final"
  /\ LET scroller == ScrollerElement(scrollerPresent, history, domCount)
         messages == extractCurrentMessages(build, scroller)
         deduped  == deduplicateMessages(messages)
         report   == extractDeepResearchReport(build, reportPanel)
     IN  IF extractionRaises(build, scroller)
         THEN /\ phases' = [phases EXCEPT ![r] = @ \o PhasesBeforeExtract(build)]
              /\ result' = [result EXCEPT
                     ![r] = Settled(build, RaisedMessage)]
              /\ UNCHANGED <<scrollTop, doneCollected>>
         ELSE /\ scrollTop' = RestoredScrollTop(domCount, topBefore[r])
              /\ phases' = [phases EXCEPT ![r] = @ \o FinalPhases(build)]
              /\ doneCollected' = [doneCollected EXCEPT ![r] = Len(messages)]
              /\ result' = [result EXCEPT ![r] = Success(deduped, report)]
  /\ pc' = [pc EXCEPT ![r] = "returned"]
  /\ UNCHANGED <<build, scrollerPresent, history, domCount, requestsLeft,
                 hostChangesLeft, via, lastCount, stable, attempt, probes,
                 settles, finalSettles, exitKind, lastChange, topBefore>>
  /\ UNCHANGED <<envVars, handlerVars>>
  /\ UNCHANGED fnVars

\* While a request is suspended the host materializes or drops containers;
\* when it prepends it moves the offset to keep the viewport in place.
HostChangesCount(n) ==
  /\ \E r \in Requests : Sleeping(r)
  /\ hostChangesLeft # 0
  /\ n \in 0..MaxTurns
  /\ n # domCount
  /\ domCount' = n
  /\ scrollTop' = ClampScroll(IF n > domCount THEN scrollTop + (n - domCount)
                                              ELSE scrollTop, n)
  /\ hostChangesLeft' = IF hostChangesLeft > 0 THEN hostChangesLeft - 1
                                               ELSE hostChangesLeft
  /\ lastChange' = [r \in Requests |->
                      IF Sleeping(r) THEN probes[r] + 1 ELSE lastChange[r]]
  /\ UNCHANGED <<build, scrollerPresent, history, requestsLeft, pc, via,
                 lastCount, stable, attempt, probes, settles, finalSettles,
                 phases, doneCollected, exitKind, topBefore, result>>
  /\ UNCHANGED <<envVars, handlerVars>>
  /\ UNCHANGED fnVars

\* ------------------------------------------------------------------------
\* The export handlers
\* ------------------------------------------------------------------------

\* format.toUpperCase()
UpperFormat(f) ==
  CASE f = "pdf" -> "PDF" [] f = "markdown" -> "MARKDOWN" [] f = "csv" -> "CSV"
    [] OTHER -> "HTML"

\* A downloaded file: the request it belongs to and its format.
File(r, f) == [req |-> r, format |-> f]

\* The messages of the errors the in-page exportPDF raises when window.jspdf
\* is missing.  part_001 tries to load the library with a script element,
\* which either fails or loads it into the page's world, not the script's.
PdfErrors(b) ==
  IF b = "content"
  THEN {"jsPDF library not loaded. Try reloading the extension and refreshing the page."}
  ELSE {"Failed to load jsPDF",
        "Cannot destructure property 'jsPDF' of 'window.jspdf' as it is undefined."}

\* The error exportToPDF of the popup's PDF module raises.
PopupPdfError == "jsPDF library is not loaded. Cannot generate PDF."

\* The in-page handler's test for nothing to export.
MenuRejectsEmpty(b, data) ==
  IF b = "content" THEN Len(data.messages) = 0 /\ ~data.report.present
  ELSE Len(data.messages) = 0

\* In-page writers whose PDF writer does not look for the engine.
MenuWritersUnguarded(b, f, eng) ==
  IF f \in Formats THEN {[wrote |-> f, error |-> ""]}
  ELSE {[wrote |-> "none", error |-> ""]}

\* What the in-page writers do for format f: the file written and the error
\* raised ('' for none).
MenuWriters(b, f, eng) ==
  IF f \in {"markdown", "csv"} THEN {[wrote |-> f, error |-> ""]}
  ELSE IF f = "pdf"
       THEN IF eng = "loaded" THEN {[wrote |-> f, error |-> ""]}
            ELSE {[wrote |-> "none", error |-> e] : e \in PdfErrors(b)}
       ELSE {[wrote |-> "none", error |-> ""]}

\* The in-page success toast.
MenuSuccessMessage(data, f) ==
  "Exported " \o ToString(Len(data.messages)) \o " messages"
    \o (IF data.report.present THEN " + report" ELSE "")
    \o " as " \o UpperFormat(f)

\* exportChat(chatData, format): resolved or rejected with error, and the
\* format module it called.
exportChat(data, f, eng) ==
  LET reject(msg) == [resolved |-> FALSE, wrote |-> "none",
                      error |-> "Export failed (" \o f \o "): " \o msg]
      resolve     == [resolved |-> TRUE, wrote |-> f, error |-> ""]
  IN  IF Len(data.messages) = 0 THEN reject("No messages to export.")
      ELSE IF f \in {"markdown", "csv"} THEN resolve
      ELSE IF f = "pdf"
           THEN IF eng = "loaded" THEN resolve ELSE reject(PopupPdfError)
           ELSE reject("Unsupported export format: \"" \o f
                         \o "\". Use \"pdf\", \"markdown\", or \"csv\".")

\* handleExport(format, data) of the background worker and the response its
\* listener sends.
handleExport(f, data) ==
  IF f \notin Formats
  THEN Toast("error", "Unsupported export format: " \o f)
  ELSE IF Len(data.messages) = 0 THEN Toast("error", "No chat data to export")
  ELSE Toast("success", "")

\* extractChatFull has resolved: the rest of the in-page click handler, or
\* the popup's response callback with exportChat.
HandleResult(r) ==
  /\ pc[r] = "returned"
  /\ pc' = [pc EXCEPT ![r] = "finished"]
  /\ LET data == result[r]
         f    == format[r]
     IN  IF via[r] = "menu"
         THEN /\ progressVisible' = FALSE
              /\ UNCHANGED loading
              /\ IF data.status # "success"
                 THEN /\ outcome' = [outcome EXCEPT ![r] = Toast("error", data.error)]
                      /\ UNCHANGED files
                 ELSE IF MenuRejectsEmpty(build, data)
                 THEN /\ outcome' = [outcome EXCEPT
                           ![r] = Toast("error", "No messages found in this chat")]
                      /\ UNCHANGED files
                 ELSE \E w \in MenuWriters(build, f, engine) :
                        /\ files' = IF w.wrote = "none" THEN files
                                    ELSE Append(files, File(r, w.wrote))
                        /\ outcome' = [outcome EXCEPT
                             ![r] = IF w.error = ""
                                    THEN Toast("success", MenuSuccessMessage(data, f))
                                    ELSE Toast("error", "Export failed: " \o w.error)]
         ELSE /\ loading' = FALSE
              /\ UNCHANGED progressVisible
              /\ IF data.status # "success"
                 THEN /\ outcome' = [outcome EXCEPT
                           ![r] = Toast("error", IF data.error # "" THEN data.error
                                                 ELSE "Extraction failed")]
                      /\ UNCHANGED files
                 ELSE IF Len(data.messages) = 0
                 THEN /\ outcome' = [outcome EXCEPT
                           ![r] = Toast("error", "No messages found")]
                      /\ UNCHANGED files
                 ELSE LET e == exportChat(data, f, engine)
                      IN  /\ files' = IF e.resolved THEN Append(files, File(r, e.wrote))
                                      ELSE files
                          /\ outcome' = [outcome EXCEPT
                               ![r] = IF e.resolved
                                      THEN Toast("success",
                                             ToString(Len(data.messages))
                                               \o " messages exported!")
                                      ELSE Toast("error", e.error)]
  /\ UNCHANGED <<build, scrollerPresent, history, domCount, scrollTop,
                 requestsLeft, hostChangesLeft, via, lastCount, stable, attempt,
                 probes, settles, finalSettles, phases, doneCollected, exitKind,
                 lastChange, topBefore, result, format>>
  /\ UNCHANGED envVars
  /\ UNCHANGED fnVars

\* The transcripts an export message to the background worker carries.
ExportData ==
  { Success(<<>>, NoReport),
    Success(<<>>, Report(DefaultReportTitle, Repeat("r", REPORT_MIN))),
    Success(<<Turn("user", <<"h", "i">>, 1)>>, NoReport) }

\* An export message reaches the background worker, which validates it and
\* answers.
BackgroundExport(r, f, data) ==
  /\ requestsLeft > 0
  /\ pc[r] = "idle"
  /\ \A q \in Requests : q < r => pc[q] # "idle"
  /\ serial => \A q \in Requests : pc[q] \in {"idle", "finished"}
  /\ f \in offered
  /\ data \in ExportData
  /\ requestsLeft' = requestsLeft - 1
  /\ via' = [via EXCEPT ![r] = "background"]
  /\ format' = [format EXCEPT ![r] = f]
  /\ result' = [result EXCEPT ![r] = data]
  /\ outcome' = [outcome EXCEPT ![r] = handleExport(f, data)]
  /\ pc' = [pc EXCEPT ![r] = "finished"]
  /\ UNCHANGED <<build, scrollerPresent, history, domCount, scrollTop,
                 hostChangesLeft, lastCount, stable, attempt, probes, settles,
                 finalSettles, phases, doneCollected, exitKind, lastChange,
                 topBefore, files, progressVisible, loading>>
  /\ UNCHANGED envVars
  /\ UNCHANGED fnVars

Next ==
  \/ \E r \in Requests, v \in {"menu", "popup"}, f \in Formats \cup {OtherFormat} :
       StartExtract(r, v, f)
  \/ \E r \in Requests : Probe(r)
  \/ \E r \in Requests : FinishExtract(r)
  \/ \E n \in 0..MaxTurns : HostChangesCount(n)
  \/ \E r \in Requests : HandleResult(r)

Spec == Init /\ [][Next]_vars

\* Overlapping export requests; the host changes the count a few times.
InitRequests == PageInit(MaxRequests, MaxHostChanges) /\ FnIdle

SpecRequests == InitRequests /\ [][Next]_vars

TypeOK ==
  /\ build \in Builds
  /\ domCount \in 0..MaxTurns
  /\ scrollTop \in 0..MaxScrollTop(domCount)
  /\ \A r \in Requests :
       /\ pc[r] \in {"idle", "settle", "final", "returned", "finished"}
       /\ stable[r] \in 0..STABLE_THRESHOLD
       /\ attempt[r] \in 0..MAX_ATTEMPTS

\* ------------------------------------------------------------------------
\* Properties of the converger
\* ------------------------------------------------------------------------

Returned(r) == pc[r] \in {"returned", "finished"} /\ via[r] # "background"

\* C1: if the count changes for the last time at probe k (lastChange, 0 when
\* it never changes) the loop is left through the Stable exit after at most
\* k + 3 probes whenever k + 3 <= 100, and no run makes more than 100 probes.
C1_ConvergenceTermination ==
  \A r \in Requests :
    /\ probes[r] <= MAX_ATTEMPTS
    /\ probes[r] <= lastChange[r] + STABLE_THRESHOLD
    /\ probes[r] = lastChange[r] + STABLE_THRESHOLD => exitKind[r] = "Stable"
    /\ exitKind[r] = "Exhausted" => lastChange[r] + STABLE_THRESHOLD > MAX_ATTEMPTS

\* C1 witness: the count changed at some probe k >= 1 and the loop was left
\* through the Stable exit exactly 3 probes later.
C1_Witness ==
  \E r \in Requests :
    /\ exitKind[r] = "Stable"
    /\ lastChange[r] >= 1
    /\ probes[r] = lastChange[r] + STABLE_THRESHOLD

\* C2: a run that exhausts its 100 probes still makes its one final settle,
\* extracts and resolves to success; no run suspends in more than 100
\* settle waits and one final settle.
C2_ExhaustedIsSoftSuccess ==
  \A r \in Requests :
    /\ settles[r] <= MAX_ATTEMPTS
    /\ finalSettles[r] <= 1
    /\ exitKind[r] = "Exhausted" =>
         /\ probes[r] = MAX_ATTEMPTS
         /\ settles[r] = MAX_ATTEMPTS
         /\ finalSettles[r] = 1
         /\ stable[r] < STABLE_THRESHOLD
         /\ Returned(r) =>
              /\ result[r].status = "success"
              /\ phases[r][Len(phases[r])] = "done"

\* C2 witness: an exhausted run has returned.
C2_Witness ==
  \E r \in Requests : exitKind[r] = "Exhausted" /\ Returned(r)

\* C3: when the scroller is not found the request resolves to a failure
\* whose error is the converger's message itself, with no progress event,
\* no scroll write, no suspension and no extracted turn.
C3_ContainerNotFound ==
  \A r \in Requests :
    (Returned(r) /\ ~scrollerPresent) =>
      /\ result[r].status = "failure"
      /\ result[r].error = NoScrollerMessage(build)
      /\ phases[r] = <<>>
      /\ settles[r] = 0 /\ finalSettles[r] = 0
      /\ result[r].messages = <<>>

\* C4: a successful run emits starting first, then one scrolling_up per
\* probe (3 to 100 of them), then done last, and no other phase.
C4_ProgressProtocol ==
  \A r \in Requests :
    (Returned(r) /\ result[r].status = "success") =>
      LET ph == phases[r] IN
      /\ Len(ph) = probes[r] + 2
      /\ probes[r] >= STABLE_THRESHOLD /\ probes[r] <= MAX_ATTEMPTS
      /\ ph[1] = "starting"
      /\ ph[Len(ph)] = "done"
      /\ \A k \in 2..(Len(ph) - 1) : ph[k] = "scrolling_up"
      /\ \A k \in 1..Len(ph) : ph[k] \in {"starting", "scrolling_up", "done"}

\* C5: at most one request is between the start of its convergence run and
\* its extraction.
C5_OneRunAtATime == Cardinality({r \in Requests : Sleeping(r)}) <= 1

\* C6: when the operation has completed the scroll offset is the one it had
\* when the operation began.
C6_ScrollRestored ==
  \A r \in Requests :
    (Returned(r) /\ result[r].status = "success") => scrollTop = topBefore[r]

\* ------------------------------------------------------------------------
\* Export requests, one after the other, on a page at rest
\* ------------------------------------------------------------------------

\* Two export requests in any format through any entry point; the page may
\* show a report and may lack the PDF engine; the host does not change the
\* conversation and the user is at the bottom of it.
InitExport ==
  /\ build \in Builds
  /\ scrollerPresent = TRUE
  /\ history \in Histories
  /\ domCount \in {0, MaxTurns}
  /\ scrollTop = MaxScrollTop(domCount)
  /\ reportPanel \in {NoNode, ReportPanel(ReportTitle, Repeat("r", REPORT_MIN))}
  /\ engine \in {"loaded", "missing"}
  /\ offered = Formats \cup {OtherFormat}
  /\ serial = TRUE
  /\ RunsIdle(2, 0)
  /\ FnIdle

NextExport ==
  \/ \E r \in Requests, v \in {"menu", "popup"}, f \in Formats \cup {OtherFormat} :
       StartExtract(r, v, f)
  \/ \E r \in Requests : Probe(r)
  \/ \E r \in Requests : FinishExtract(r)
  \/ \E r \in Requests : HandleResult(r)
  \/ \E r \in Requests, f \in Formats \cup {OtherFormat}, data \in ExportData :
       BackgroundExport(r, f, data)

SpecExport == InitExport /\ [][NextExport]_vars

Finished(r) == pc[r] = "finished"

\* The files request r produced.
FilesOf(r) == SelectSeq(files, LAMBDA x : x.req = r)

\* The transcript has no turn and no report.
NothingToExport(data) == Len(data.messages) = 0 /\ ~data.report.present

\* C12: an export whose extraction succeeded is rejected (an error, no
\* file) when the transcript has no turn and no report, and only then: a
\* transcript with a turn or a report is exported in a supported format
\* whose writer is available, through the menu, the popup and the
\* background worker.
C12_RejectedIffEmpty ==
  \A r \in Requests :
    (Finished(r) /\ result[r].status = "success") =>
      /\ NothingToExport(result[r]) =>
           /\ outcome[r].kind = "error"
           /\ FilesOf(r) = <<>>
      /\ (/\ ~NothingToExport(result[r])
          /\ format[r] \in Formats
          /\ format[r] = "pdf" => engine = "loaded") =>
           /\ outcome[r].kind = "success"
           /\ via[r] # "background" => FilesOf(r) = <<File(r, format[r])>>

EngineMessages ==
  {"Export failed: " \o e : e \in PdfErrors("content") \cup PdfErrors("part_001")}
    \cup {"Export failed (pdf): " \o PopupPdfError}

\* Request r reached the format writers with a transcript to write.
ReachedWriter(r) ==
  /\ Finished(r) /\ via[r] \in {"menu", "popup"}
  /\ result[r].status = "success"
  /\ Len(result[r].messages) > 0

\* C15: with the PDF engine missing a PDF export ends in an error that
\* names the engine, writes no file and hides the progress indicator; a
\* later markdown or csv export on the same page succeeds and writes its
\* file.
C15_EngineMissing ==
  engine = "missing" =>
    \A r \in Requests :
      ReachedWriter(r) =>
        /\ format[r] = "pdf" =>
             /\ outcome[r].kind = "error"
             /\ outcome[r].message \in EngineMessages
             /\ FilesOf(r) = <<>>
             /\ (\A q \in Requests : pc[q] \in {"idle", "finished"})
                  => ~progressVisible /\ ~loading
        /\ format[r] \in {"markdown", "csv"} =>
             /\ outcome[r].kind = "success"
             /\ FilesOf(r) = <<File(r, format[r])>>

\* C15 witness: a PDF export failed for want of the engine and the next
\* request, in markdown, was exported.
C15_Witness ==
  /\ engine = "missing"
  /\ ReachedWriter(1) /\ format[1] = "pdf" /\ outcome[1].kind = "error"
  /\ ReachedWriter(2) /\ format[2] = "markdown" /\ outcome[2].kind = "success"
  /\ files = <<File(2, "markdown")>>

\* ------------------------------------------------------------------------
\* Containers whose extraction raises
\* ------------------------------------------------------------------------

\* The k-th exchange of a conversation in which every turn is different.
SoundContainer(k) == FullContainer(<<"q", Digit(k)>>, <<"a", Digit(k)>>)

\* The query of the k-th exchange cannot be rendered.
RaisingQueryContainer(k) ==
  Container(<<UserQuery(<<El("div", {"query-text"}, <<Para(<<"q">>), Raising>>)>>),
              ModelResponse(<<El("message-content", {}, <<Para(<<"a", Digit(k)>>)>>)>>)>>)

\* The response of the k-th exchange cannot be rendered.
RaisingResponseContainer(k) ==
  Container(<<UserQuery(<<El("div", {"query-text"}, <<Para(<<"q", Digit(k)>>)>>)>>),
              ModelResponse(<<El("message-content", {},
                                 <<El("div", {}, <<Raising>>)>>)>>)>>)

\* A report panel whose text cannot be rendered.
RaisingReportPanel ==
  El("deep-research-immersive-panel", {},
     <<El("div", {"container"},
          <<El("message-content", {},
               <<Para(Repeat("r", REPORT_MIN)), Raising>>)>>)>>)

FaultHistories ==
  { h \in [1..MaxTurns -> UNION {{SoundContainer(k), RaisingQueryContainer(k),
                                   RaisingResponseContainer(k)} : k \in 1..MaxTurns}] :
      \A k \in 1..MaxTurns :
        h[k] \in {SoundContainer(k), RaisingQueryContainer(k),
                  RaisingResponseContainer(k)} }

\* One export request on a page where rendering some containers raises.
InitFault ==
  /\ build \in Builds
  /\ scrollerPresent \in BOOLEAN
  /\ history \in FaultHistories
  /\ domCount \in 0..MaxTurns
  /\ scrollTop \in 0..MaxScrollTop(domCount)
  /\ reportPanel \in {NoNode, RaisingReportPanel}
  /\ engine = "loaded"
  /\ offered = {"markdown"}
  /\ serial = FALSE
  /\ RunsIdle(1, MaxHostChanges)
  /\ FnIdle

SpecFault == InitFault /\ [][Next]_vars

InDocumentOrder(ms) ==
  \A i, j \in 1..Len(ms) :
    i < j => /\ ms[i].src <= ms[j].src
             /\ ms[i].src = ms[j].src =>
                  ms[i].role = "user" /\ ms[j].role = "assistant"

\* No node of the subtree raises.
IsSound(node) == \A d \in Range(Descendants(node)) : d.type # "raise"

\* The containers in the document.
Containers == Materialized(history, domCount)

\* The turns of the transcript read from container idx.
TurnsFrom(ms, idx) == SelectSeq(ms, LAMBDA m : m.src = idx)

\* C11: when rendering fails inside a container the export still succeeds,
\* no turn comes from the element that failed, and every other container
\* gives its user and its assistant turn, in document order.
C11_PerContainerFailure ==
  \A r \in Requests :
    (Returned(r) /\ scrollerPresent) =>
      /\ result[r].status = "success"
      /\ InDocumentOrder(result[r].messages)
      /\ \A idx \in 1..Len(Containers) :
           LET c  == Containers[idx]
               ts == TurnsFrom(result[r].messages, idx)
           IN  /\ IsSound(c) =>
                    /\ Len(ts) = 2
                    /\ ts[1].role = "user" /\ ts[2].role = "assistant"
                    /\ ts[1].content = <<"q", Digit(Len(history) - domCount + idx)>>
                    /\ ts[2].content = <<"a", Digit(Len(history) - domCount + idx)>>
               /\ ~IsSound(SelectFirst(c, IsUserQuery)) => ts = <<>>
               /\ ~IsSound(SelectFirst(c, IsModelResponse)) =>
                    \A k \in 1..Len(ts) : ts[k].role = "user"

\* C14: extractChatFull resolves to {success: true, data} or to
\* {success: false, error} with a message, whatever raises on the way: a
\* missing scroller and an uncaught rendering error give a failure, an
\* error inside report detection gives a success without report.
C14_UniformResult ==
  \A r \in Requests :
    Returned(r) =>
      /\ result[r].status \in {"success", "failure"}
      /\ result[r].status = "failure" =>
           result[r].error # "" /\ result[r].messages = <<>>
      /\ result[r].status = "success" => result[r].error = ""
      /\ ~scrollerPresent => result[r].status = "failure"
      /\ (scrollerPresent /\ reportPanel = RaisingReportPanel
            /\ \A idx \in 1..Len(Containers) : IsSound(Containers[idx])) =>
           result[r].status = "success" /\ ~result[r].report.present

\* C14 witness: rendering a container raised, nothing caught it before
\* extractChatFull, and the request resolved to a failure with the error's
\* message.
C14_Witness ==
  \E r \in Requests :
    /\ Returned(r)
    /\ \E idx \in 1..Len(Containers) : ~IsSound(Containers[idx])
    /\ result[r].status = "failure"
    /\ result[r].error = CaughtError(build, RaisedMessage)

\* ------------------------------------------------------------------------
\* deduplicateMessages on its own
\* ------------------------------------------------------------------------

LongText(last) == Repeat("z", FP_PREFIX) \o <<last>>

\* Contents with equal and different fingerprints: short, padded with white
\* space, and longer than the fingerprint prefix.
DedupContents ==
  {<<"a">>, <<"b">>, <<"a", SP>>, LongText("x"), LongText("y")}

DedupTurns ==
  {[role |-> ro, content |-> c] : ro \in {"user", "assistant"}, c \in DedupContents}

InitDedup ==
  /\ build = "content"
  /\ scrollerPresent = FALSE
  /\ history = <<>>
  /\ domCount = 0
  /\ scrollTop = 0
  /\ PlainPage
  /\ RunsIdle(0, 0)
  /\ fnStage = "turns"
  /\ fnInput \in UNION {[1..n -> DedupTurns] : n \in 0..MaxMsgs}
  /\ fnOutput = <<>>

\* deduplicateMessages(messages)
DedupOnce ==
  /\ fnStage = "turns"
  /\ fnOutput' = <<deduplicateMessages(fnInput)>>
  /\ fnStage' = "once"
  /\ UNCHANGED fnInput
  /\ UNCHANGED pageVars

\* deduplicateMessages applied to its own result
DedupTwice ==
  /\ fnStage = "once"
  /\ fnOutput' = Append(fnOutput, deduplicateMessages(fnOutput[1]))
  /\ fnStage' = "twice"
  /\ UNCHANGED fnInput
  /\ UNCHANGED pageVars

NextDedup == DedupOnce \/ DedupTwice

SpecDedup == InitDedup /\ [][NextDedup]_vars

UniqueFingerprints(ms) ==
  \A i, j \in 1..Len(ms) : i # j => fingerprint(ms[i]) # fingerprint(ms[j])

\* C7: deduplication is idempotent, never lengthens its input, and leaves
\* no two turns with the same fingerprint.
C7_DedupIdempotent ==
  /\ fnStage \in {"once", "twice"} =>
       /\ Len(fnOutput[1]) <= Len(fnInput)
       /\ UniqueFingerprints(fnOutput[1])
  /\ fnStage = "twice" => fnOutput[2] = fnOutput[1]

\* C7 witness: deduplication dropped a turn, kept at least two, and has
\* been applied a second time.
C7_Witness ==
  /\ fnStage = "twice"
  /\ Len(fnOutput[1]) < Len(fnInput)
  /\ Len(fnOutput[1]) >= 2

\* Indices of the turns that are the first of their fingerprint.
FirstOccurrences(ms) ==
  {i \in 1..Len(ms) : \A j \in 1..(i - 1) : fingerprint(ms[j]) # fingerprint(ms[i])}

\* The k-th smallest element of a set of numbers.
NthSmallest(S, k) == CHOOSE i \in S : Cardinality({j \in S : j < i}) = k - 1

\* C8: the result is the input restricted, in order, to the first turn of
\* every fingerprint.
C8_DedupKeepsFirst ==
  fnStage \in {"once", "twice"} =>
    LET keep == FirstOccurrences(fnInput)
        out  == fnOutput[1]
    IN  /\ Len(out) = Cardinality(keep)
        /\ \A k \in 1..Len(out) : out[k] = fnInput[NthSmallest(keep, k)]

\* C8 witness: a turn was discarded whose first occurrence is not adjacent
\* to it and is a different turn object with the same fingerprint.
C8_Witness ==
  /\ fnStage = "once"
  /\ \E i, j \in 1..Len(fnInput) :
       /\ i + 1 < j
       /\ fingerprint(fnInput[i]) = fingerprint(fnInput[j])
       /\ fingerprint(fnInput[i + 1]) # fingerprint(fnInput[i])
       /\ fnInput[i] # fnInput[j]
       /\ i \in FirstOccurrences(fnInput)

\* ------------------------------------------------------------------------
\* Transcript assembly on its own
\* ------------------------------------------------------------------------

\* Turn containers of every shape the assembler distinguishes.
ContainerShapes ==
  { FullContainer(<<"h", "i">>, <<"o", "k">>),
    FullContainer(<<"h", "i">>, <<"a">>),
    BlankQueryContainer(<<"o", "k">>),
    \* a response only, with a code block; no query element
    Container(<<ModelResponse(<<El("pre", {}, <<El("code", {}, <<Txt(<<"x">>)>>)>>)>>)>>),
    \* a query read from the user-query element itself, a response found
    \* through .response-container
    Container(<<UserQuery(<<El("ul", {}, <<El("li", {}, <<Txt(<<"h", "i">>)>>)>>)>>),
                ModelResponse(<<El("div", {"response-container"},
                                   <<El("strong", {}, <<Txt(<<"o", "k">>)>>)>>)>>)>>),
    \* only an accessibility label and an empty response
    Container(<<UserQuery(<<ScreenReaderOnly(<<"Y", "o", "u">>)>>),
                ModelResponse(<<Comment(<<"c">>), Txt(<<NL, TAB>>)>>)>>),
    \* a query only
    Container(<<UserQuery(<<El("div", {"query-content"}, <<Txt(<<"h", "i">>)>>)>>)>>) }

InitAssemble ==
  /\ build \in Builds
  /\ scrollerPresent \in BOOLEAN
  /\ history \in UNION {[1..n -> ContainerShapes] : n \in 0..MaxTurns}
  /\ domCount = Len(history)
  /\ scrollTop = 0
  /\ PlainPage
  /\ RunsIdle(0, 0)
  /\ fnStage = "page"
  /\ fnInput = <<>>
  /\ fnOutput = <<>>

\* extractCurrentMessages()
ExtractTurns ==
  /\ fnStage = "page"
  /\ fnOutput' = <<extractCurrentMessages(build,
                     ScrollerElement(scrollerPresent, history, domCount))>>
  /\ fnStage' = "extracted"
  /\ UNCHANGED fnInput
  /\ UNCHANGED pageVars

\* deduplicateMessages(messages) in extractChatFull
DedupTurnsOfPage ==
  /\ fnStage = "extracted"
  /\ fnOutput' = Append(fnOutput, deduplicateMessages(fnOutput[1]))
  /\ fnStage' = "assembled"
  /\ UNCHANGED fnInput
  /\ UNCHANGED pageVars

NextAssemble == ExtractTurns \/ DedupTurnsOfPage

SpecAssemble == InitAssemble /\ [][NextAssemble]_vars

\* The text the query (response) element of container idx renders to,
\* before trimming; empty when the container has no such element.
RenderedQuery(idx) ==
  LET uq == SelectFirst(history[idx], IsUserQuery)
  IN  IF uq = NoNode THEN <<>>
      ELSE processNode(build, queryElement(uq), NoNode, <<>>)

RenderedResponse(idx) ==
  LET mr == SelectFirst(history[idx], IsModelResponse)
  IN  IF mr = NoNode THEN <<>>
      ELSE processNode(build, responseElement(build, mr), NoNode, <<>>)

AllWhiteSpace(s) == \A k \in 1..Len(s) : s[k] \in WhiteSpace

\* C9: every assembled turn is a user or assistant turn with content that
\* is not empty after trimming, and an element rendering to white space
\* only contributes no turn.
C9_NoEmptyTurns ==
  fnStage \in {"extracted", "assembled"} =>
    \A s \in 1..Len(fnOutput) :
      /\ \A k \in 1..Len(fnOutput[s]) :
           /\ fnOutput[s][k].role \in {"user", "assistant"}
           /\ Trim(fnOutput[s][k].content) # <<>>
      /\ \A idx \in 1..Len(history) :
           /\ AllWhiteSpace(RenderedQuery(idx)) =>
                ~\E k \in 1..Len(fnOutput[s]) :
                    fnOutput[s][k].src = idx /\ fnOutput[s][k].role = "user"
           /\ AllWhiteSpace(RenderedResponse(idx)) =>
                ~\E k \in 1..Len(fnOutput[s]) :
                    fnOutput[s][k].src = idx /\ fnOutput[s][k].role = "assistant"

\* C9 witness: a page with a query element that renders to white space only
\* has been assembled into a transcript with turns.
C9_Witness ==
  /\ fnStage = "assembled"
  /\ fnOutput[2] # <<>>
  /\ \E idx \in 1..Len(history) :
       /\ SelectFirst(history[idx], IsUserQuery) # NoNode
       /\ RenderedQuery(idx) # <<>>
       /\ AllWhiteSpace(RenderedQuery(idx))

\* C10: turns are in the document order of their containers, the user turn
\* of a container before its assistant turn, before and after
\* deduplication.
C10_DocumentOrder ==
  fnStage \in {"extracted", "assembled"} =>
    \A s \in 1..Len(fnOutput) : InDocumentOrder(fnOutput[s])

\* C10 witness: two containers gave turns, one of them both a user and an
\* assistant turn, and deduplication dropped a turn.
C10_Witness ==
  /\ fnStage = "assembled"
  /\ Len(fnOutput[2]) < Len(fnOutput[1])
  /\ \E i, j \in 1..Len(fnOutput[2]) :
       /\ fnOutput[2][i].src = fnOutput[2][j].src
       /\ fnOutput[2][i].role # fnOutput[2][j].role
  /\ \E i, j \in 1..Len(fnOutput[2]) : fnOutput[2][i].src # fnOutput[2][j].src

\* ------------------------------------------------------------------------
\* Format writers
\* ------------------------------------------------------------------------

Q == "\""

BOM == "BOM"

\* The text writers of the repository: the in-page writers of content.js
\* and of part_001, and the GeminiExporter modules exportChat calls.
Writers == {"content", "part_001", "lib"}

\* Array.prototype.join(sep)
RECURSIVE JoinWith(_, _)
JoinWith(parts, sep) ==
  IF parts = <<>> THEN <<>>
  ELSE IF Len(parts) = 1 THEN parts[1]
  ELSE parts[1] \o sep \o JoinWith(Tail(parts), sep)

\* String.prototype.split('\n')
RECURSIVE SplitLines(_)
SplitLines(s) ==
  IF \A k \in 1..Len(s) : s[k] # NL THEN <<s>>
  ELSE LET k == CHOOSE i \in 1..Len(s) : s[i] = NL /\ \A j \in 1..(i - 1) : s[j] # NL
       IN  <<SubSeq(s, 1, k - 1)>> \o SplitLines(SubSeq(s, k + 1, Len(s)))

\* esc of exportCSV, escapeCSV of the library
esc(w, s) ==
  LET special == IF w = "lib" THEN {Q, ",", NL, CR} ELSE {Q, ",", NL}
      doubled == Join([k \in 1..Len(s) |-> IF s[k] = Q THEN <<Q, Q>> ELSE <<s[k]>>])
  IN  IF \E k \in 1..Len(s) : s[k] \in special THEN <<Q>> \o doubled \o <<Q>>
      ELSE s

RoleLabel(role) == IF role = "user" THEN <<"Y", "o", "u">>
                   ELSE <<"G", "e", "m", "i", "n", "i">>

ReportLabel == <<"Deep Research Report">>

CsvHeader(w) ==
  IF w = "lib" THEN <<<<"Turn Number">>, <<"Role">>, <<"Content">>, <<"Timestamp">>>>
  ELSE <<<<"Turn">>, <<"Role">>, <<"Content">>, <<"Timestamp">>>>

\* exportCSV(data), exportToCSV(chatData): the text of the file
exportCSV(w, data) ==
  LET row(cells) == JoinWith([k \in 1..Len(cells) |-> esc(w, cells[k])], <<",">>)
      n          == Len(data.messages)
      turnRows   == [k \in 1..n |->
                       row(<<<<Digit(k)>>, RoleLabel(data.messages[k].role),
                             data.messages[k].content, <<>>>>)]
      reportRows == IF w = "content" /\ data.report.present
                    THEN <<row(<<<<Digit(n + 1)>>, ReportLabel,
                                  data.report.content, <<>>>>)>>
                    ELSE <<>>
  IN  <<BOM>> \o JoinWith(<<row(CsvHeader(w))>> \o turnRows \o reportRows, <<NL>>)

DATE == "DATE"

\* A markdown writer that quotes the assistant's lines too.
exportMarkdownAllQuoted(w, data) ==
  LET quoted(c) == [k \in 1..Len(SplitLines(c)) |-> <<">", SP>> \o SplitLines(c)[k]]
      turn(m)   == <<<<"#", "#", SP>> \o RoleLabel(m.role), <<>>>> \o quoted(m.content) \o <<<<>>>>
  IN  JoinWith(<<<<"#", SP>> \o data.title, <<>>, <<DATE>>, <<>>, <<"-", "-", "-">>, <<>>>>
                 \o Join([k \in 1..Len(data.messages) |-> turn(data.messages[k])]),
               <<NL>>)

\* exportMarkdown(data), exportToMarkdown(chatData): the text of the file.
\* DATE stands for the line with the export date and the message count.
exportMarkdown(w, data) ==
  LET title     == IF w = "lib" /\ data.title = <<>>
                   THEN <<"Untitled Chat">> ELSE data.title
      quoted(c) == [k \in 1..Len(SplitLines(c)) |-> <<">", SP>> \o SplitLines(c)[k]]
      turn(m)   == <<<<"#", "#", SP>> \o RoleLabel(m.role), <<>>>>
                     \o (IF m.role = "user" THEN quoted(m.content) ELSE <<m.content>>)
                     \o <<<<>>>>
      report    == IF w = "content" /\ data.report.present
                   THEN <<<<"-", "-", "-">>, <<>>,
                          <<"#", SP, "Deep Research Report: ">> \o data.report.title, <<>>,
                          data.report.content, <<>>>>
                   ELSE <<>>
  IN  JoinWith(<<<<"#", SP>> \o title, <<>>, <<DATE>>, <<>>, <<"-", "-", "-">>, <<>>>>
                 \o Join([k \in 1..Len(data.messages) |-> turn(data.messages[k])])
                 \o report,
               <<NL>>)

\* Contents with and without the characters the writers treat specially.
WriterContents ==
  {<<"a">>, <<"a", ",", "b">>, <<Q, "a", Q>>, <<"a", NL, "b">>, <<"a", CR, "b">>}

WriterTurns ==
  {[role |-> ro, content |-> c] : ro \in {"user", "assistant"}, c \in WriterContents}

ReportBody == Repeat("r", REPORT_MIN) \o <<",", NL, "s">>

\* The data extractChatFull hands to a writer; part_001 extracts no report.
InitWriters ==
  /\ build = "content"
  /\ scrollerPresent = FALSE
  /\ history = <<>>
  /\ domCount = 0
  /\ scrollTop = 0
  /\ PlainPage
  /\ RunsIdle(0, 0)
  /\ fnStage = "data"
  /\ \E w \in Writers, t \in {<<"D">>, <<>>},
        ms \in UNION {[1..n -> WriterTurns] : n \in 0..MaxTurns},
        rp \in {NoReport, Report(ReportTitle, ReportBody)} :
       /\ w = "part_001" => rp = NoReport
       /\ fnInput = [writer |-> w, title |-> t, messages |-> ms, report |-> rp]
  /\ fnOutput = <<>>

\* esc(m.content) for every turn
EscapeContents ==
  /\ fnStage = "data"
  /\ fnOutput' = [k \in 1..Len(fnInput.messages) |->
                    esc(fnInput.writer, fnInput.messages[k].content)]
  /\ fnStage' = "escaped"
  /\ UNCHANGED fnInput
  /\ UNCHANGED pageVars

WriteCsv ==
  /\ fnStage = "data"
  /\ fnOutput' = <<exportCSV(fnInput.writer, fnInput)>>
  /\ fnStage' = "csv"
  /\ UNCHANGED fnInput
  /\ UNCHANGED pageVars

WriteMarkdown ==
  /\ fnStage = "data"
  /\ fnOutput' = <<exportMarkdown(fnInput.writer, fnInput)>>
  /\ fnStage' = "markdown"
  /\ UNCHANGED fnInput
  /\ UNCHANGED pageVars

NextWriters == EscapeContents \/ WriteCsv \/ WriteMarkdown

SpecWriters == InitWriters /\ [][NextWriters]_vars

RECURSIVE QuotesDoubled(_)
QuotesDoubled(s) ==
  IF s = <<>> THEN <<>>
  ELSE (IF Head(s) = Q THEN <<Q, Q>> ELSE <<Head(s)>>) \o QuotesDoubled(Tail(s))

NeedsQuoting(s) == \E k \in 1..Len(s) : s[k] \in {Q, ",", NL, CR}

\* C16: a field is written between double quotes, its double quotes
\* doubled, exactly when it contains a double quote, a comma, a newline or a
\* carriage return; any other field is written unchanged.
C16_QuotedIffSpecial ==
  fnStage = "escaped" =>
    \A k \in 1..Len(fnOutput) :
      LET s == fnInput.messages[k].content
      IN  IF NeedsQuoting(s)
          THEN fnOutput[k] = <<Q>> \o QuotesDoubled(s) \o <<Q>>
          ELSE fnOutput[k] = s

\* Reading a delimited text back.  A position is outside quotes when an
\* even number of double quotes precedes it.
QuotesBefore(s, i) == Cardinality({j \in 1..(i - 1) : s[j] = Q})

\* The pieces of s between the occurrences of c outside quotes.
Pieces(s, c) ==
  LET B      == {i \in 1..Len(s) : s[i] = c /\ QuotesBefore(s, i) % 2 = 0}
      nth(k) == CHOOSE x \in B : Cardinality({y \in B : y < x}) = k - 1
      n      == Cardinality(B)
  IN  [k \in 1..(n + 1) |->
         SubSeq(s, IF k = 1 THEN 1 ELSE nth(k - 1) + 1,
                   IF k = n + 1 THEN Len(s) ELSE nth(k) - 1)]

\* The value of a field: without its surrounding quotes, a doubled quote
\* read as one.
FieldValue(f) ==
  IF f = <<>> \/ Head(f) # Q THEN f
  ELSE LET g    == SubSeq(f, 2, Len(f) - 1)
           idx  == [i \in 1..Len(g) |-> <<i, g[i]>>]
           kept == SelectSeq(idx, LAMBDA p : ~(p[2] = Q /\ QuotesBefore(g, p[1]) % 2 = 1))
       IN  [k \in 1..Len(kept) |-> kept[k][2]]

\* Records of a delimited text after its first character: rows end at a
\* newline outside quotes, fields at a comma outside quotes.
CsvRecords(out) ==
  LET rows == Pieces(Tail(out), NL)
  IN  [r \in 1..Len(rows) |->
         [k \in 1..Len(Pieces(rows[r], ",")) |-> FieldValue(Pieces(rows[r], ",")[k])]]

\* C17: the delimited text is the byte-order mark and a header row, one row
\* per turn numbered 1..n in transcript order and, when the data has a
\* report, one more row numbered n + 1 with the report label and the report
\* content; for every writer.
C17_CsvRows ==
  fnStage = "csv" =>
    LET out  == fnOutput[1]
        recs == CsvRecords(out)
        n    == Len(fnInput.messages)
    IN  /\ Head(out) = BOM
        /\ Len(recs) = 1 + n + (IF fnInput.report.present THEN 1 ELSE 0)
        /\ Len(recs[1]) = 4
        /\ \A k \in 1..n :
             recs[k + 1] = <<<<Digit(k)>>, RoleLabel(fnInput.messages[k].role),
                             fnInput.messages[k].content, <<>>>>
        /\ fnInput.report.present =>
             recs[n + 2] = <<<<Digit(n + 1)>>, ReportLabel, fnInput.report.content, <<>>>>

\* The lines a turn takes in the markdown text.
TurnLines(m) ==
  <<<<"#", "#", SP>> \o RoleLabel(m.role), <<>>>>
    \o (IF m.role = "user"
        THEN [k \in 1..Len(SplitLines(m.content)) |-> <<">", SP>> \o SplitLines(m.content)[k]]
        ELSE SplitLines(m.content))
    \o <<<<>>>>

\* C18: the markdown text starts with the title line, and after the
\* preamble every turn, in transcript order, is its role header line
\* ("## You" or "## Gemini"), then its content: each line prefixed with "> "
\* for a user turn, unchanged for an assistant turn.
C18_MarkdownTurns ==
  fnStage = "markdown" =>
    LET lines    == SplitLines(fnOutput[1])
        expected == Join([k \in 1..Len(fnInput.messages) |-> TurnLines(fnInput.messages[k])])
    IN  /\ fnInput.title # <<>> => lines[1] = <<"#", SP>> \o fnInput.title
        /\ Len(lines) >= 6 + Len(expected)
        /\ SubSeq(lines, 7, 6 + Len(expected)) = expected

\* C18 witness: a transcript with a user turn of two lines and an assistant
\* turn of two lines has been written.
C18_Witness ==
  /\ fnStage = "markdown"
  /\ fnInput.title # <<>>
  /\ \E i, j \in 1..Len(fnInput.messages) :
       /\ fnInput.messages[i].role = "user"
       /\ fnInput.messages[j].role = "assistant"
       /\ fnInput.messages[i].content = <<"a", NL, "b">>
       /\ fnInput.messages[j].content = <<"a", NL, "b">>

\* ------------------------------------------------------------------------
\* Rendering of subtrees
\* ------------------------------------------------------------------------

\* The text of the nodes that must not be exported, and of the others.
HiddenText == <<"x">>

ShownText == <<"v">>

\* root of the export menu (id gce-root), the toast (id gce-toast)
Injected(id) == [El("div", {}, <<Txt(HiddenText)>>) EXCEPT !.id = id]

HiddenNodes ==
  {ScreenReaderOnly(HiddenText), Injected("gce-root"), Injected("gce-toast")}

\* A subtree with hidden node h in running text, in a code block, in inline
\* code, in a table cell, in a list item and in a heading.
Placements(h) ==
  {El("div", {}, <<El("p", {}, <<h, Txt(ShownText)>>)>>),
   El("div", {}, <<El("pre", {}, <<El("code", {}, <<h, Txt(ShownText)>>)>>)>>),
   El("div", {}, <<El("p", {}, <<El("code", {}, <<h, Txt(ShownText)>>)>>)>>),
   El("div", {}, <<El("table", {}, <<El("tr", {},
                     <<El("td", {}, <<h, Txt(ShownText)>>)>>)>>)>>),
   El("div", {}, <<El("ul", {}, <<El("li", {}, <<h, Txt(ShownText)>>)>>)>>),
   El("div", {}, <<El("h2", {}, <<h, Txt(ShownText)>>)>>)}

\* A code block with class tokens pl (block) and cl (inner code element)
\* and data attribute dl.
CodeBlock(pl, cl, dl) ==
  [El("pre", {}, <<[El("code", {}, <<Txt(ShownText)>>) EXCEPT !.langClass = cl]>>)
     EXCEPT !.langClass = pl, !.dataLang = dl]

\* What the host puts before a code block: nothing, a language label in
\* mixed case, a label with white space around it, a line that is no
\* language, and a language after 30 blanks.
Labels ==
  {<<>>,
   <<El("div", {}, <<Txt(<<"P", "y", "t", "h", "o", "n">>)>>)>>,
   <<El("div", {}, <<Txt(<<SP, "J", "S", "O", "N", NL>>)>>)>>,
   <<El("div", {}, <<Txt(<<"H", "e", "l", "l", "o">>)>>)>>,
   <<El("div", {}, <<Txt(Repeat(SP, 30) \o <<"g", "o">>)>>)>>}

Hints == {<<>>, <<"j", "s">>}

FencedShapes ==
  {El("div", {}, label \o <<CodeBlock(pl, cl, dl)>>) :
     label \in Labels, pl \in Hints, cl \in {<<>>, <<"g", "o">>},
     dl \in {<<>>, <<"r", "u", "s", "t">>}}

InitRender ==
  /\ build \in Builds
  /\ scrollerPresent = FALSE
  /\ history = <<>>
  /\ domCount = 0
  /\ scrollTop = 0
  /\ PlainPage
  /\ RunsIdle(0, 0)
  /\ fnStage = "subtree"
  /\ fnInput \in (UNION {Placements(h) : h \in HiddenNodes}) \cup FencedShapes
  /\ fnOutput = <<>>

\* extractFormattedText(el)
Render ==
  /\ fnStage = "subtree"
  /\ fnOutput' = <<extractFormattedText(build, fnInput)>>
  /\ fnStage' = "rendered"
  /\ UNCHANGED fnInput
  /\ UNCHANGED pageVars

SpecRender == InitRender /\ [][Render]_vars

\* C19: the rendered text of a subtree has no text of a screen-reader-only
\* node or of the injected export UI, wherever the node sits.
C19_HiddenTextAbsent ==
  fnStage = "rendered" =>
    \A k \in 1..Len(fnOutput[1]) : fnOutput[1][k] \notin Range(HiddenText)

\* The tag of the first code fence of a text.
FenceTag(text) ==
  LET i == CHOOSE k \in 1..(Len(text) - 2) :
             /\ text[k] = BT /\ text[k + 1] = BT /\ text[k + 2] = BT
             /\ \A j \in 1..(k - 1) : text[j] # BT
      e == CHOOSE k \in (i + 3)..Len(text) :
             text[k] = NL /\ \A j \in (i + 3)..(k - 1) : text[j] # NL
  IN  SubSeq(text, i + 3, e - 1)

\* The language the claimed order gives a code block.
ResolvedLanguage(pre, prev) ==
  LET code  == SelectFirst(pre, IsCode)
      label == toLowerCase(Trim(textContent(prev)))
  IN  IF pre.langClass # <<>> THEN pre.langClass
      ELSE IF code.langClass # <<>> THEN code.langClass
      ELSE IF pre.dataLang # <<>> THEN pre.dataLang
      ELSE IF prev.type = "el" /\ Len(textContent(prev)) < 30 /\ label \in knownLangs
           THEN label
           ELSE <<>>

\* C20: the tag of a code fence is the class token of the block or of its
\* code element, else its data attribute, else the text of the preceding
\* sibling when it is shorter than 30 characters and, in lower case, a known
\* language, else empty.
C20_LanguageOrder ==
  fnStage = "rendered" =>
    \A k \in 1..Len(fnInput.kids) :
      fnInput.kids[k].tag = "pre" =>
        FenceTag(fnOutput[1]) =
          ResolvedLanguage(fnInput.kids[k], PrevElementSibling(fnInput.kids, k))

\* ------------------------------------------------------------------------
\* Report detection
\* ------------------------------------------------------------------------

\* A report panel whose container has the text directly, without
\* message-content or response-container (the fallback of
\* extractDeepResearchReport reads the container).
BarePanel(content) ==
  El("deep-research-immersive-panel", {},
     <<El("div", {"toolbar"}, <<El("h2", {"title-text"}, <<Txt(ReportTitle)>>)>>),
       El("div", {"container"}, <<Para(content)>>)>>)

\* A report panel without .container.
EmptyPanel == El("deep-research-immersive-panel", {}, <<>>)

\* A bare panel whose text cannot be rendered.
RaisingBarePanel ==
  El("deep-research-immersive-panel", {},
     <<El("div", {"container"},
          <<Para(Repeat("r", REPORT_FALLBACK_MIN + 1)), Raising>>)>>)

\* Panels with texts just below and at the thresholds.
ReportPanels ==
  {NoNode, EmptyPanel, RaisingReportPanel, RaisingBarePanel}
    \cup {ReportPanel(ReportTitle, Repeat("r", n)) : n \in {REPORT_MIN - 1, REPORT_MIN}}
    \cup {BarePanel(Repeat("r", n)) :
            n \in {REPORT_MIN - 1, REPORT_MIN, REPORT_FALLBACK_MIN,
                   REPORT_FALLBACK_MIN + 1}}

InitReport ==
  /\ build = "content"
  /\ scrollerPresent = TRUE
  /\ history \in Histories
  /\ domCount \in 0..MaxTurns
  /\ scrollTop \in 0..MaxScrollTop(domCount)
  /\ reportPanel \in ReportPanels
  /\ engine = "loaded"
  /\ offered = {"markdown"}
  /\ serial = FALSE
  /\ RunsIdle(1, MaxHostChanges)
  /\ FnIdle

SpecReport == InitReport /\ [][Next]_vars

\* The element of the panel the report text is read from: message-content
\* or response-container inside .container, else .container itself.
ReportSource(panel) ==
  LET container == SelectFirst(panel, {ClassSel("container")})
  IN  OrElse(SelectFirst(container, {TagSel("message-content")}),
        OrElse(SelectFirst(container, {TagSel("response-container")}), container))

\* C21: an extraction that came back carries a report exactly when the
\* panel's container is present and the text extracted from it has at least
\* 50 characters after trimming, on the regular path and on the fallback
\* that reads the container; when rendering the report raises, the
\* extraction still succeeds, without report.
C21_ReportThreshold ==
  \A r \in Requests :
    Returned(r) =>
      LET text == extractFormattedText(build, ReportSource(reportPanel))
      IN  /\ result[r].status = "success"
          /\ result[r].report.present <=>
               /\ reportPanel # NoNode
               /\ SelectFirst(reportPanel, {ClassSel("container")}) # NoNode
               /\ ~Raises(text)
               /\ Len(text) >= REPORT_MIN

\* ------------------------------------------------------------------------
\* The counts the converger measures
\* ------------------------------------------------------------------------

\* One run whose measurements are recorded, on a page the host changes a
\* bounded number of times.
InitConverge ==
  /\ PageInit(1, MaxHostChanges)
  /\ scrollerPresent
  /\ fnInput = <<>>
  /\ fnOutput = <<>>
  /\ fnStage = "trace"

SpecConverge == InitConverge /\ [][Next]_vars

\* Number of probes at the end of the record that measured the same count
\* as the measurement before them.
TrailingEqual(t) ==
  LET breaks == {k \in 2..Len(t) : t[k] # t[k - 1]}
      last   == IF breaks = {} THEN 1
                ELSE CHOOSE k \in breaks : \A j \in breaks : j <= k
  IN  Len(t) - last

\* C22: the stability counter counts the probes since the count last
\* differed from the recorded one, the recorded count is the latest
\* measurement, the counter stays within 0..3, the loop goes on while it is
\* below 3, and it is left through the Stable exit exactly when the counter
\* is 3: then the last three probes measured the recorded count.
C22_StabilityCounter ==
  \A r \in Requests :
    pc[r] # "idle" =>
      /\ stable[r] \in 0..STABLE_THRESHOLD
      /\ stable[r] = TrailingEqual(fnOutput)
      /\ lastCount[r] = fnOutput[Len(fnOutput)]
      /\ pc[r] = "settle" => stable[r] < STABLE_THRESHOLD
      /\ pc[r] # "settle" =>
           (exitKind[r] = "Stable" <=> stable[r] = STABLE_THRESHOLD)
      /\ exitKind[r] = "Stable" =>
           /\ Len(fnOutput) > STABLE_THRESHOLD
           /\ \A k \in (Len(fnOutput) - STABLE_THRESHOLD + 1)..Len(fnOutput) :
                fnOutput[k] = lastCount[r]

\* C22 witness: a run was left through the Stable exit after the counter
\* had been reset by a probe that measured another count.
C22_Witness ==
  /\ pc[1] = "returned"
  /\ exitKind[1] = "Stable"
  /\ \E k \in 2..Len(fnOutput) : fnOutput[k] # fnOutput[k - 1]

\* C23: the counts of one run never decrease from one measurement to the
\* next, the initial count included.
C23_CountsNonDecreasing ==
  \A k \in 2..Len(fnOutput) : fnOutput[k] >= fnOutput[k - 1]

\* ------------------------------------------------------------------------
\* Fingerprints of pairs of turns
\* ------------------------------------------------------------------------

\* Trimmed contents that agree on 199 characters and have white space as
\* their 200th.
BoundaryContents ==
  {Repeat("z", FP_PREFIX - 1) \o <<SP, "x">>,
   Repeat("z", FP_PREFIX - 1) \o <<NL, "y">>}

\* Two turns handed to deduplicateMessages.
InitFingerprint ==
  /\ build = "content"
  /\ scrollerPresent = FALSE
  /\ history = <<>>
  /\ domCount = 0
  /\ scrollTop = 0
  /\ PlainPage
  /\ RunsIdle(0, 0)
  /\ fnStage = "turns"
  /\ fnInput \in [1..2 -> {[role |-> ro, content |-> c] :
                             ro \in {"user", "assistant"},
                             c \in DedupContents \cup BoundaryContents}]
  /\ fnOutput = <<>>

SpecFingerprint == InitFingerprint /\ [][NextDedup]_vars

\* C24: the second of two turns is dropped as a duplicate exactly when the
\* turns have the same role and their trimmed contents agree on their first
\* 200 characters.
C24_FingerprintRule ==
  fnStage \in {"once", "twice"} =>
    (Len(fnOutput[1]) = 1 <=>
       /\ fnInput[1].role = fnInput[2].role
       /\ Substring0(Trim(fnInput[1].content), FP_PREFIX)
            = Substring0(Trim(fnInput[2].content), FP_PREFIX))

\* ------------------------------------------------------------------------
\* The paginated writer
\* ------------------------------------------------------------------------

\* Lengths are in hundredths of a millimetre: M the top margin (20 mm),
\* PAGE_END the lowest line position (280 mm), LS the line spacing of text
\* (11 * 1.4 * 0.352778 mm), CLS that of code (10 * 1.4 * 0.352778 mm).
M == 2000

PAGE_END == 28000

LS == 543

CLS == 494

Min(a, b) == IF a < b THEN a ELSE b

\* A page break that leaves the page without footer.
BreakWithoutFooter(d) ==
  [d EXCEPT !.pages = @ + 1, !.pg = @ + 1, !.y = M, !.fresh = TRUE]

\* footer(); doc.addPage(); pg++; y = M   (ensureSpace of the library).
\* A footer is recorded with the page it is drawn on, the current (last)
\* page of the document, and the number it shows.
Break(d) ==
  [d EXCEPT !.footers = Append(@, [page |-> d.pages, number |-> d.pg]),
            !.pages = @ + 1, !.pg = @ + 1, !.y = M, !.fresh = TRUE]

\* Lines of the text (code) segment being written: i is the index of the
\* turn, 0 for the report.
TextLines(data, i) == IF i = 0 THEN data.report ELSE data.messages[i].text

CodeLines(data, i) == IF i = 0 THEN 0 ELSE data.messages[i].code

\* The test before the next item is drawn.
NeedsBreak(w, data, d) ==
  LET bh == CodeLines(data, d.i) * CLS + 400
  IN  CASE d.part = "header" ->
             IF w = "lib" THEN d.y + (2 * LS + 400) > PAGE_END
             ELSE d.y + 3 * LS > PAGE_END
        [] d.part = "text" ->
             IF w = "lib" THEN d.y + LS > PAGE_END ELSE d.y > PAGE_END
        [] d.part = "codeStart" ->
             IF w = "lib" THEN d.y + Min(bh, 26000) > PAGE_END
             ELSE IF w = "content" THEN d.y + Min(bh, 2000) > PAGE_END
             ELSE d.y + bh > PAGE_END
        [] d.part = "code" ->
             IF w = "lib" THEN d.y + CLS > PAGE_END ELSE d.y > PAGE_END
        [] OTHER -> FALSE

\* What is written after turn i (after the title page when i = 0 and
\* nothing has been written): the next turn, the report, or the last footer.
AfterTurn(w, data, d, i) ==
  IF i < Len(data.messages)
  THEN [d EXCEPT !.part = "header", !.i = i + 1, !.left = 0]
  ELSE IF w = "content" /\ data.report > 0
       THEN [d EXCEPT !.part = "report", !.i = 0, !.left = 0]
       ELSE [d EXCEPT !.part = "end", !.i = 0, !.left = 0]

\* The segment is written: y += 6 after a turn, nothing after the report.
AfterSegments(w, data, d) ==
  IF d.i = 0 THEN [d EXCEPT !.part = "end", !.left = 0]
  ELSE AfterTurn(w, data, [d EXCEPT !.y = @ + 600], d.i)

\* The turns as doc.splitTextToSize lays them out: lines of text, then
\* lines of a code block.
PdfTurns == {[text |-> t, code |-> c] : t \in {1, 47}, c \in {0, 60}}

InitPdf ==
  /\ build = "content"
  /\ scrollerPresent = FALSE
  /\ history = <<>>
  /\ domCount = 0
  /\ scrollTop = 0
  /\ PlainPage
  /\ RunsIdle(0, 0)
  /\ fnStage = "pdf"
  /\ \E w \in Writers, ms \in UNION {[1..n -> PdfTurns] : n \in 0..MaxTurns},
        rp \in {0, 60} :
       /\ w = "part_001" => rp = 0
       /\ fnInput = [writer |-> w, messages |-> ms, report |-> rp]
  /\ fnOutput = [pg |-> 1, pages |-> 1, y |-> 0, footers |-> <<>>,
                 part |-> "title", i |-> 0, left |-> 0, fresh |-> FALSE]

\* The item at hand is drawn now: the test was negative or the break has
\* been made.
Draws == fnOutput.fresh \/ ~NeedsBreak(fnInput.writer, fnInput, fnOutput)

PdfStep(d) ==
  /\ fnStage = "pdf"
  /\ fnOutput' = d
  /\ UNCHANGED <<fnInput, fnStage>>
  /\ UNCHANGED pageVars

\* Title page: footer(); doc.addPage(); pg++; let y = M
PdfTitle ==
  /\ fnOutput.part = "title"
  /\ PdfStep(AfterTurn(fnInput.writer, fnInput, Break(fnOutput), 0))

\* if (...) { footer(); doc.addPage(); pg++; y = M; }
PdfPageBreak ==
  /\ fnOutput.part \in {"header", "text", "codeStart", "code"}
  /\ ~fnOutput.fresh
  /\ NeedsBreak(fnInput.writer, fnInput, fnOutput)
  /\ PdfStep(Break(fnOutput))

\* doc.text(label, M, y); y += LS + 2
PdfHeader ==
  /\ fnOutput.part = "header"
  /\ Draws
  /\ PdfStep([fnOutput EXCEPT !.y = @ + LS + 200, !.fresh = FALSE,
                !.part = "text", !.left = TextLines(fnInput, fnOutput.i)])

\* doc.text(l, M, y); y += LS
PdfTextLine ==
  /\ fnOutput.part = "text"
  /\ Draws
  /\ LET d == [fnOutput EXCEPT !.y = @ + LS, !.fresh = FALSE, !.left = @ - 1]
     IN  PdfStep(IF d.left > 0 THEN d
                 ELSE IF CodeLines(fnInput, d.i) > 0
                      THEN [d EXCEPT !.part = "codeStart"]
                      ELSE AfterSegments(fnInput.writer, fnInput, d))

\* doc.rect(...) behind the code block (the library then adds 2 to y)
PdfCodeStart ==
  /\ fnOutput.part = "codeStart"
  /\ Draws
  /\ PdfStep([fnOutput EXCEPT
                !.y = IF fnInput.writer = "lib" THEN @ + 200 ELSE @,
                !.fresh = FALSE, !.part = "code",
                !.left = CodeLines(fnInput, fnOutput.i)])

\* doc.text(l, M + 3, y); y += cLS; after the last line y += 2
PdfCodeLine ==
  /\ fnOutput.part = "code"
  /\ Draws
  /\ LET d == [fnOutput EXCEPT !.y = @ + CLS, !.fresh = FALSE, !.left = @ - 1]
     IN  PdfStep(IF d.left > 0 THEN d
                 ELSE AfterSegments(fnInput.writer, fnInput,
                                    [d EXCEPT !.y = @ + 200]))

\* Report: footer(); doc.addPage(); pg++; y = M; heading (y += 10), title
\* line (y += 7), y += 4
PdfReport ==
  /\ fnOutput.part = "report"
  /\ PdfStep([Break(fnOutput) EXCEPT !.y = @ + 1000 + 700 + 400, !.fresh = FALSE,
                !.part = "text", !.left = TextLines(fnInput, 0)])

\* footer(); doc.save(...)
PdfFinish ==
  /\ fnOutput.part = "end"
  /\ PdfStep([fnOutput EXCEPT
                !.footers = Append(@, [page |-> fnOutput.pages, number |-> fnOutput.pg]),
                !.part = "saved"])

NextPdf ==
  \/ PdfTitle
  \/ PdfPageBreak
  \/ PdfHeader
  \/ PdfTextLine
  \/ PdfCodeStart
  \/ PdfCodeLine
  \/ PdfReport
  \/ PdfFinish

SpecPdf == InitPdf /\ [][NextPdf]_vars

\* Footers drawn on page p.
FootersOn(p) == SelectSeq(fnOutput.footers, LAMBDA f : f.page = p)

\* C25: the page counter equals the number of pages of the document; after
\* a page break the vertical position is the top margin and the page that
\* was left has its footer; every page that has been left, and every page
\* once the document is saved, has exactly one footer, and the number of
\* every footer is the index of its page.
C25_PagesAndFooters ==
  /\ fnOutput.pg = fnOutput.pages
  /\ fnOutput.fresh => fnOutput.y = M
  /\ \A p \in 1..(fnOutput.pages - 1) : Len(FootersOn(p)) = 1
  /\ Len(FootersOn(fnOutput.pages)) = (IF fnOutput.part = "saved" THEN 1 ELSE 0)
  /\ \A k \in 1..Len(fnOutput.footers) :
       fnOutput.footers[k].number = fnOutput.footers[k].page

\* C25 witness: a document with two turns and a report has been saved; it
\* has more pages than the title page, one page of turns and the report
\* page, so pages were broken inside the content.
C25_Witness ==
  /\ fnOutput.part = "saved"
  /\ fnInput.writer = "content"
  /\ Len(fnInput.messages) = 2
  /\ fnInput.report > 0
  /\ fnOutput.pages > 4
  /\ Len(fnOutput.footers) = fnOutput.pages

\* ------------------------------------------------------------------------
\* The popup's export buttons
\* ------------------------------------------------------------------------

\* The popups: popup.js in its two versions.
Popups == {"part_003", "part_004"}

\* What chrome.tabs.sendMessage hands to the callback: lastError set, no
\* response, a failure response, a transcript without messages, a
\* transcript with messages.
Responses == {"lastError", "noResponse", "failure", "empty", "messages"}

\* The transcript of a response with messages.
PopupData == Success(<<Turn("user", <<"h", "i">>, 1)>>, NoReport)

\* setButtonsDisabled(d) / setDisabled(d) writing the buttons only.
setDisabledButtonsOnly(st, d) == [st EXCEPT !.disabled = d]

\* setButtonsDisabled(d) / setDisabled(d).
setDisabled(st, d) == [st EXCEPT !.isExporting = d, !.disabled = d]

\* showLoading(visible).
showLoading(st, visible) == [st EXCEPT !.loading = visible]

\* showToast(message, type).
showToast(st, kind, message) ==
  [st EXCEPT !.toasts = Append(@, Toast(kind, message))]

\* The three statements every branch of the response callback ends with.
PopupDone(st, path, kind, message) ==
  [showToast(setDisabled(showLoading(st, FALSE), FALSE), kind, message)
     EXCEPT !.paths = Append(@, path)]

\* The callback handleExport(format) passes to chrome.tabs.sendMessage.
PopupCallback(st, in, resp) ==
  LET p == in.popup
      f == st.asked
  IN  IF resp = "lastError"
      THEN PopupDone(st, "lastError", "error",
                     IF p = "part_003" THEN "Failed to connect to page"
                     ELSE "Cannot connect")
      ELSE IF resp \in {"noResponse", "failure"}
      THEN PopupDone(st, "failure", "error",
                     IF resp = "failure" THEN NoScrollerMessage("content")
                     ELSE IF p = "part_003" THEN "Failed to extract chat data"
                     ELSE "Extraction failed")
      ELSE IF resp = "empty"
      THEN PopupDone(st, "empty", "error",
                     IF p = "part_003" THEN "No chat messages found on this page"
                     ELSE "No messages found")
      ELSE IF in.exporter = "absent"
      THEN PopupDone(st, "thrown", "error", "Export failed")
      ELSE LET e == exportChat(PopupData, f, in.jspdf)
           IN  IF e.resolved
               THEN PopupDone(st, "resolved", "success",
                              IF p = "part_003" THEN "Exported 1 messages!"
                              ELSE "1 messages exported!")
               ELSE PopupDone(st, "rejected", "error", e.error)

\* The popup has opened and chrome.tabs.query has answered: the active tab
\* is known or not, the export modules and jsPDF are loaded or not.
InitPopup ==
  /\ build = "content"
  /\ scrollerPresent = FALSE
  /\ history = <<>>
  /\ domCount = 0
  /\ scrollTop = 0
  /\ PlainPage
  /\ RunsIdle(0, 0)
  /\ fnStage = "popup"
  /\ \E p \in Popups, t \in BOOLEAN, x \in {"loaded", "absent"},
        j \in {"loaded", "missing"} :
       fnInput = [popup |-> p, activeTabId |-> t, exporter |-> x, jspdf |-> j]
  /\ fnOutput = [isExporting |-> FALSE, disabled |-> FALSE, loading |-> FALSE,
                 outstanding |-> 0, asked |-> "none", clicks |-> 0,
                 refused |-> 0, toasts |-> <<>>, paths |-> <<>>]

\* handleExport(format) on a click: nothing while an export is in progress
\* or without a tab, otherwise the extractChat message is sent.
PopupClick(f) ==
  /\ fnStage = "popup"
  /\ fnOutput.clicks < MaxClicks
  /\ LET st == [fnOutput EXCEPT !.clicks = @ + 1]
     IN  fnOutput' =
           IF st.isExporting \/ ~fnInput.activeTabId
           THEN [st EXCEPT !.refused = @ + 1]
           ELSE [showLoading(setDisabled(st, TRUE), TRUE)
                   EXCEPT !.outstanding = @ + 1, !.asked = f]
  /\ UNCHANGED <<fnInput, fnStage>>
  /\ UNCHANGED pageVars

\* chrome.tabs.sendMessage calls back; the promise exportChat returns is
\* settled before any other event is handled.
PopupResponse(resp) ==
  /\ fnStage = "popup"
  /\ fnOutput.outstanding > 0
  /\ fnOutput' = [PopupCallback(fnOutput, fnInput, resp)
                    EXCEPT !.outstanding = @ - 1]
  /\ UNCHANGED <<fnInput, fnStage>>
  /\ UNCHANGED pageVars

NextPopup ==
  \/ \E f \in Formats : PopupClick(f)
  \/ \E resp \in Responses : PopupResponse(resp)

SpecPopup == InitPopup /\ [][NextPopup]_vars

\* C26: at most one extractChat request of the popup is outstanding, and
\* one is outstanding exactly while isExporting is set; once the response
\* callback has completed, on whichever path, isExporting is false, the
\* buttons are enabled and the loading overlay is hidden, and every
\* completion showed one toast.
C26_PopupGuard ==
  /\ fnOutput.outstanding <= 1
  /\ fnOutput.isExporting <=> fnOutput.outstanding = 1
  /\ fnOutput.outstanding = 1 => fnOutput.disabled /\ fnOutput.loading
  /\ (fnOutput.outstanding = 0 /\ fnOutput.paths # <<>>) =>
       ~fnOutput.isExporting /\ ~fnOutput.disabled /\ ~fnOutput.loading
  /\ Len(fnOutput.toasts) = Len(fnOutput.paths)
  /\ fnOutput.clicks =
       fnOutput.refused + Len(fnOutput.paths) + fnOutput.outstanding

\* C26 witness: a click was refused while an export was in progress, and
\* exports have since completed by a synchronous throw and by an empty
\* transcript, the popup being at rest again.
C26_Witness ==
  /\ fnInput.activeTabId
  /\ fnOutput.refused >= 1
  /\ fnOutput.outstanding = 0
  /\ ~fnOutput.isExporting
  /\ \E k \in 1..Len(fnOutput.paths) : fnOutput.paths[k] = "thrown"
  /\ \E k \in 1..Len(fnOutput.paths) : fnOutput.paths[k] = "empty"

\* ------------------------------------------------------------------------
\* Outcomes of the in-page menu handler
\* ------------------------------------------------------------------------

C28_DoneCount ==
  \A r \in Requests :
    (Returned(r) /\ result[r].status = "success") =>
      doneCollected[r] = Len(result[r].messages)

\* ------------------------------------------------------------------------
\* exportChat and the format modules
\* ------------------------------------------------------------------------

\* The values exportChat gets as chatData: nothing, an object without
\* messages, an object whose messages is not an array, and objects with an
\* array of no and of one turn.
ChatData(object, field, array, items) ==
  [object |-> object, field |-> field, array |-> array, items |-> items]

ChatDatas ==
  { ChatData(FALSE, FALSE, FALSE, <<>>),
    ChatData(TRUE, FALSE, FALSE, <<>>),
    ChatData(TRUE, TRUE, FALSE, <<>>),
    ChatData(TRUE, TRUE, TRUE, <<>>),
    ChatData(TRUE, TRUE, TRUE, <<Turn("user", <<"h", "i">>, 1)>>) }

\* The name exportChat gives a format module in its messages.
ModuleLabel(f) ==
  CASE f = "markdown" -> "Markdown" [] f = "csv" -> "CSV" [] OTHER -> "PDF"

\* exportChat without its test for an empty messages array.
exportChatCallNoEmptyTest(chatData, f, modules, eng) ==
  LET reject(msg, invoked) ==
        [resolved |-> FALSE, invoked |-> invoked,
         error |-> "Export failed (" \o f \o "): " \o msg]
  IN  IF ~chatData.object \/ ~chatData.field \/ ~chatData.array
      THEN reject("Invalid chat data: expected an object with a \"messages\" array.",
                  <<>>)
      ELSE IF f \in Formats
      THEN IF f \notin modules
           THEN reject(ModuleLabel(f) \o " export module is not loaded.", <<>>)
           ELSE IF f = "pdf" /\ eng # "loaded"
           THEN reject(PopupPdfError, <<f>>)
           ELSE [resolved |-> TRUE, invoked |-> <<f>>, error |-> ""]
      ELSE reject("Unsupported export format: \"" \o f
                    \o "\". Use \"pdf\", \"markdown\", or \"csv\".", <<>>)

\* exportChat(chatData, format) with the format modules that are loaded and
\* the PDF engine: whether the promise resolved, the modules invoked in
\* order, and the message of the Error it rejected with.
exportChatCall(chatData, f, modules, eng) ==
  LET reject(msg, invoked) ==
        [resolved |-> FALSE, invoked |-> invoked,
         error |-> "Export failed (" \o f \o "): " \o msg]
  IN  IF ~chatData.object \/ ~chatData.field \/ ~chatData.array
      THEN reject("Invalid chat data: expected an object with a \"messages\" array.",
                  <<>>)
      ELSE IF Len(chatData.items) = 0
      THEN reject("No messages to export.", <<>>)
      ELSE IF f \in Formats
      THEN IF f \notin modules
           THEN reject(ModuleLabel(f) \o " export module is not loaded.", <<>>)
           ELSE IF f = "pdf" /\ eng # "loaded"
           THEN reject(PopupPdfError, <<f>>)
           ELSE [resolved |-> TRUE, invoked |-> <<f>>, error |-> ""]
      ELSE reject("Unsupported export format: \"" \o f
                    \o "\". Use \"pdf\", \"markdown\", or \"csv\".", <<>>)

InitExportChat ==
  /\ build = "content"
  /\ scrollerPresent = FALSE
  /\ history = <<>>
  /\ domCount = 0
  /\ scrollTop = 0
  /\ PlainPage
  /\ RunsIdle(0, 0)
  /\ fnStage = "exportChat"
  /\ \E d \in ChatDatas, f \in Formats \cup {OtherFormat},
        ms \in SUBSET Formats, j \in {"loaded", "missing"} :
       fnInput = [chatData |-> d, format |-> f, modules |-> ms, jspdf |-> j]
  /\ fnOutput = <<>>

\* One call of exportChat, up to the settlement of its promise.
CallExportChat ==
  /\ fnStage = "exportChat"
  /\ fnOutput = <<>>
  /\ fnOutput' = exportChatCall(fnInput.chatData, fnInput.format,
                                fnInput.modules, fnInput.jspdf)
  /\ UNCHANGED <<fnInput, fnStage>>
  /\ UNCHANGED pageVars

SpecExportChat == InitExportChat /\ [][CallExportChat]_vars

\* C29: a call of exportChat invokes at most one format module; when it
\* resolves it has invoked the module of the requested format and no other;
\* when chatData has no messages array, the array is empty, the format is
\* none of the three or its module is not loaded, it rejects with an Error
\* and has invoked no module.
C29_OneModule ==
  (fnStage = "exportChat" /\ fnOutput # <<>>) =>
    LET d == fnInput.chatData
        f == fnInput.format
    IN  /\ Len(fnOutput.invoked) <= 1
        /\ fnOutput.resolved =>
             /\ f \in Formats
             /\ fnOutput.invoked = <<f>>
             /\ fnOutput.error = ""
        /\ (\/ ~d.object \/ ~d.field \/ ~d.array
            \/ Len(d.items) = 0
            \/ f \notin Formats
            \/ f \notin fnInput.modules) =>
             /\ ~fnOutput.resolved
             /\ fnOutput.error # ""
             /\ fnOutput.invoked = <<>>

\* C29 witness: a CSV export of a transcript with a turn was asked for with
\* the CSV module not loaded (the other two are), and the call rejected
\* without invoking a module.
C29_Witness ==
  /\ fnStage = "exportChat" /\ fnOutput # <<>>
  /\ fnInput.format = "csv"
  /\ fnInput.modules = {"markdown", "pdf"}
  /\ Len(fnInput.chatData.items) = 1
  /\ ~fnOutput.resolved
  /\ fnOutput.invoked = <<>>

\* ------------------------------------------------------------------------
\* The injected elements
\* ------------------------------------------------------------------------

\* document.getElementById(id) finds an element among the injected
\* children of body.
HasId(body, id) == \E k \in 1..Len(body) : body[k] = id

\* Number of children of body with the id.
CountId(body, id) == Cardinality({k \in 1..Len(body) : body[k] = id})

\* injectUI(): the children of body afterwards.
injectUI(body) ==
  IF HasId(body, "gce-root") THEN body
  ELSE body \o <<"gce-root", "gce-toast">>

\* init() has run: injectUI once, then the observer on body's child list.
InitInject ==
  /\ build \in {"content", "part_001"}
  /\ scrollerPresent = FALSE
  /\ history = <<>>
  /\ domCount = 0
  /\ scrollTop = 0
  /\ PlainPage
  /\ RunsIdle(0, 0)
  /\ fnStage = "inject"
  /\ fnInput = <<>>
  /\ fnOutput = [body |-> injectUI(<<>>), notified |-> FALSE]

\* The operation is recorded in fnInput; a change of body's child list
\* queues the observer's callback.
UiStep(op, body) ==
  /\ fnStage = "inject"
  /\ Len(fnInput) < MaxUiOps
  /\ fnInput' = Append(fnInput, op)
  /\ fnOutput' = [body |-> body,
                  notified |-> fnOutput.notified \/ body # fnOutput.body]
  /\ UNCHANGED fnStage
  /\ UNCHANGED pageVars

\* injectUI is called.
CallInjectUI ==
  /\ fnStage = "inject"
  /\ UiStep("injectUI", injectUI(fnOutput.body))

\* The host removes the element with id gce-root from body.
HostRemovesRoot ==
  /\ HasId(fnOutput.body, "gce-root")
  /\ UiStep("remove", SelectSeq(fnOutput.body, LAMBDA id : id # "gce-root"))

\* The mutation observer's callback.
ObserverCallback ==
  /\ fnStage = "inject"
  /\ fnOutput.notified
  /\ LET body == IF ~HasId(fnOutput.body, "gce-root")
                 THEN injectUI(fnOutput.body) ELSE fnOutput.body
     IN  fnOutput' = [body |-> body, notified |-> body # fnOutput.body]
  /\ UNCHANGED <<fnInput, fnStage>>
  /\ UNCHANGED pageVars

NextInject ==
  \/ CallInjectUI
  \/ HostRemovesRoot
  \/ ObserverCallback

SpecInject == InitInject /\ [][NextInject]_vars

\* C30: whatever injectUI calls and removals of the root have happened,
\* body has at most one element with id gce-root and at most one with id
\* gce-toast.
C30_SingleRootAndToast ==
  fnStage = "inject" =>
    /\ CountId(fnOutput.body, "gce-root") <= 1
    /\ CountId(fnOutput.body, "gce-toast") <= 1

====
